---- MODULE Spec2Model ----
(***************************************************************************)
(* A model of src/src/ui/ui.tsx: the card registry, the progress tracker,  *)
(* the Action Bridge (sendMessage), the Resume Bridge (resumeInterrupt)    *)
(* and the Clarify form controller.                                        *)
(*                                                                         *)
(* The host is the environment: the global functions it injects on window, *)
(* the elements of its document and its stream context.  A handler of the  *)
(* source runs to completion on the UI event loop, so each handler is one  *)
(* action; the only continuation is the setTimeout callback of the DOM     *)
(* strategy, which is an action of its own.                                *)
(***************************************************************************)
EXTENDS Integers, Sequences, FiniteSets, TLC

VARIABLES
    win,          \* window[fn] for every probed global name: "absent" | "ok" | "throws"
    dom,          \* the host document: which elements document.querySelector finds
    inputValue,   \* the value of the first textarea and of the first text input
    mcpProps,     \* props of the MCPWorkflowCard: [status, nOptions]
    clicked,      \* the control the user clicked in the last step: "none" | "option" |
                  \* "confirm" | "cancel" | "submit" | "fix"
    streamCtx,    \* useStreamContext(): "absent" | "noSubmit" | "ok" | "throws" (its submit)
    clarifyProps, \* props of the ArticleClarifyCard
    form,         \* useState of the ArticleClarifyCard: topic, contentFormat, audience, tone
    submitting,   \* useState of the ArticleClarifyCard: the submitting guard
    clarifyLast,  \* the last thing that happened to the ArticleClarifyCard: what, the guard
                  \* before it, the question and missing props before it, and the seed
                  \* props it changed
    trace,        \* host-visible effects of the last step, if it was a handler invocation
    timers,       \* pending setTimeout callbacks, in scheduling order
    fired,        \* the last setTimeout callback that ran: its effects, its closure, the
                  \* input's value and the MCP card's status at that moment
    progress,     \* the last render of a multi-step card: its props and the state of each step
    workflow,     \* the last render of the ArticleWorkflowCard: its node list, its
                  \* current_node and, for each node, whether it is marked current
    seoTask,      \* the SEO task last rendered: its impact and difficulty and their scales
    looked,       \* the last two lookups in ComponentMap: <<key, result>> pairs, newest first
    view          \* the last card rendered from a payload: its key, the payload and the parts
                  \* the render shows

bridgeVars == <<win, dom, inputValue, timers, fired>>

clarifyVars == <<streamCtx, clarifyProps, form, submitting, clarifyLast>>

pureVars == <<progress, looked, seoTask, workflow, view>>

vars == <<win, dom, inputValue, mcpProps, clicked, streamCtx, clarifyProps, form, submitting,
          clarifyLast, trace, timers, fired, progress, looked, seoTask, workflow, view>>

(***************************************************************************)
(* Bounds of the model.                                                    *)
(***************************************************************************)
MaxOptions == 2       \* options shown by a confirm/select card
MaxTimers == 2        \* pending delayed submits
MaxScale == 7         \* impact and difficulty range over -MaxScale..MaxScale
MaxNodes == 2         \* nodes of a workflow

(***************************************************************************)
(* The host probe surface.                                                 *)
(***************************************************************************)
globalFns == <<"__LANGGRAPH_SEND_MESSAGE__", "__LANGGRAPH_SEND__", "sendMessage", "sendChatMessage">>

dedicatedResumeFn == "__LANGGRAPH_RESUME__"

resumeFns == <<"resumeThread", "resume", "sendResume">>

selectors == <<"textarea", "input[type=\"text\"]">>

SendNames == {globalFns[i] : i \in 1..Len(globalFns)}

ResumeNames == {dedicatedResumeFn} \cup {resumeFns[i] : i \in 1..Len(resumeFns)}

FnStates == {"absent", "ok", "throws"}

MCPStatuses == {"select", "confirm", "running", "done", "cancelled", "error"}

\* typeof win[fn] === "function"
IsFunction(fn) == win[fn] # "absent"

(***************************************************************************)
(* The document.  textarea / textInput: whether the selector matches an    *)
(* element.  The remaining fields describe the surroundings of the element *)
(* the DOM strategy picks: its closest form, the buttons of that form, the *)
(* first page-level submit button, and whether forms have requestSubmit.   *)
(* namedControl: whether a control of the form is named "requestSubmit";   *)
(* form.requestSubmit is then that control, whatever the browser.          *)
(***************************************************************************)
Documents(named) ==
    {d \in [textarea : BOOLEAN, textInput : BOOLEAN, inForm : BOOLEAN,
            formSubmit : BOOLEAN, formButton : BOOLEAN, pageSubmit : BOOLEAN,
            requestSubmit : BOOLEAN, namedControl : named] :
        /\ d.namedControl => d.inForm
        /\ (d.formSubmit \/ d.formButton) => d.inForm
        \* button[type="submit"] also matches button:not([type="button"])
        /\ d.formSubmit => d.formButton
        \* a submit button of the form is a submit button of the page
        /\ d.formSubmit => d.pageSubmit
        /\ d.requestSubmit => d.inForm
        /\ (~d.textarea /\ ~d.textInput) => ~d.inForm}

\* the documents whose forms have no control named like a method of the form
DomStates == Documents({FALSE})

\* those and the documents whose form has a control named "requestSubmit"
NamedDomStates == Documents(BOOLEAN)

\* document.querySelector(sel): the element found, or "null"
querySelector(sel) ==
    IF sel = "textarea" THEN (IF dom.textarea THEN "textarea" ELSE "null")
    ELSE IF sel = "input[type=\"text\"]" THEN (IF dom.textInput THEN "input" ELSE "null")
    ELSE "null"

(***************************************************************************)
(* Host-visible effects.                                                   *)
(***************************************************************************)
Call(fn, arg) == [op |-> "call", target |-> fn, arg |-> arg]

CallThrew(fn, arg) == [op |-> "callThrew", target |-> fn, arg |-> arg]

WindowEvent(name, detail) == [op |-> "windowEvent", target |-> name, arg |-> detail]

SetValue(el, text) == [op |-> "setValue", target |-> el, arg |-> text]

ElementEvent(el, type) == [op |-> "elementEvent", target |-> el, arg |-> type]

SetTimeout(el, delay) == [op |-> "setTimeout", target |-> el, arg |-> delay]

Click(btn) == [op |-> "click", target |-> btn, arg |-> <<>>]

FormSubmit(how) == [op |-> "formSubmit", target |-> "form", arg |-> how]

\* a call of a property of the form that is not a function: a TypeError
FormSubmitThrew(how) == [op |-> "formSubmitThrew", target |-> "form", arg |-> how]

SubmitDelayMs == 50

(***************************************************************************)
(* Action Bridge, MCPWorkflowCard.sendMessage.                             *)
(***************************************************************************)
\* Step 1 without its return: the loop goes on, and the chain with it, after a call
\* that returned.
RECURSIVE mcp_probeSend_noReturn(_, _)
mcp_probeSend_noReturn(i, text) ==
    IF i > Len(globalFns) THEN [log |-> <<>>, returned |-> FALSE]
    ELSE IF ~IsFunction(globalFns[i]) THEN mcp_probeSend_noReturn(i + 1, text)
    ELSE LET rest == mcp_probeSend_noReturn(i + 1, text)
         IN  [log |-> <<(IF win[globalFns[i]] = "ok" THEN Call(globalFns[i], text)
                         ELSE CallThrew(globalFns[i], text))>> \o rest.log,
              returned |-> FALSE]

\* Step 1 without its try/catch: the exception of a throwing function unwinds the
\* invocation, which ends at the call.
RECURSIVE mcp_probeSend_noCatch(_, _)
mcp_probeSend_noCatch(i, text) ==
    IF i > Len(globalFns) THEN [log |-> <<>>, returned |-> FALSE]
    ELSE IF ~IsFunction(globalFns[i]) THEN mcp_probeSend_noCatch(i + 1, text)
    ELSE IF win[globalFns[i]] = "ok"
         THEN [log |-> <<Call(globalFns[i], text)>>, returned |-> TRUE]
         ELSE [log |-> <<CallThrew(globalFns[i], text)>>, returned |-> TRUE]

\* Step 1 calling only the first function found: when it throws, the loop is left and
\* the chain goes on with the event.
RECURSIVE mcp_probeSend_firstOnly(_, _)
mcp_probeSend_firstOnly(i, text) ==
    IF i > Len(globalFns) THEN [log |-> <<>>, returned |-> FALSE]
    ELSE IF ~IsFunction(globalFns[i]) THEN mcp_probeSend_firstOnly(i + 1, text)
    ELSE IF win[globalFns[i]] = "ok"
         THEN [log |-> <<Call(globalFns[i], text)>>, returned |-> TRUE]
         ELSE [log |-> <<CallThrew(globalFns[i], text)>>, returned |-> FALSE]

\* Step 1: for (const fn of globalFns) if function: try { win[fn](text); return } catch {}
RECURSIVE mcp_probeSend(_, _)
mcp_probeSend(i, text) ==
    IF i > Len(globalFns) THEN [log |-> <<>>, returned |-> FALSE]
    ELSE IF ~IsFunction(globalFns[i]) THEN mcp_probeSend(i + 1, text)
    ELSE IF win[globalFns[i]] = "ok"
         THEN [log |-> <<Call(globalFns[i], text)>>, returned |-> TRUE]
         ELSE LET rest == mcp_probeSend(i + 1, text)
              IN  [log |-> <<CallThrew(globalFns[i], text)>> \o rest.log,
                   returned |-> rest.returned]

\* Step 3 with the notifications dispatched before the value is written.
RECURSIVE mcp_domStrategy_notifyFirst(_, _)
mcp_domStrategy_notifyFirst(i, text) ==
    IF i > Len(selectors) THEN [log |-> <<>>, input |-> "null"]
    ELSE LET input == querySelector(selectors[i])
         IN  IF input = "null" THEN mcp_domStrategy_notifyFirst(i + 1, text)
             ELSE [log |-> <<ElementEvent(input, "input"),
                             ElementEvent(input, "change"),
                             SetValue(input, text),
                             SetTimeout(input, SubmitDelayMs)>>,
                   input |-> input]

\* Step 3 without its return: the loop goes on to the next selector after an element
\* was written.
RECURSIVE mcp_domStrategy_noReturn(_, _)
mcp_domStrategy_noReturn(i, text) ==
    IF i > Len(selectors) THEN [log |-> <<>>, input |-> "null"]
    ELSE LET input == querySelector(selectors[i])
             rest == mcp_domStrategy_noReturn(i + 1, text)
         IN  IF input = "null" THEN rest
             ELSE [log |-> <<SetValue(input, text),
                             ElementEvent(input, "input"),
                             ElementEvent(input, "change"),
                             SetTimeout(input, SubmitDelayMs)>> \o rest.log,
                   input |-> input]

\* Step 3 with the delayed submit scheduled after the loop, whether or not an element
\* was found.
RECURSIVE mcp_domStrategy_alwaysSchedules(_, _)
mcp_domStrategy_alwaysSchedules(i, text) ==
    IF i > Len(selectors) THEN [log |-> <<SetTimeout("null", SubmitDelayMs)>>, input |-> "null"]
    ELSE LET input == querySelector(selectors[i])
         IN  IF input = "null" THEN mcp_domStrategy_alwaysSchedules(i + 1, text)
             ELSE [log |-> <<SetValue(input, text),
                             ElementEvent(input, "input"),
                             ElementEvent(input, "change"),
                             SetTimeout(input, SubmitDelayMs)>>,
                   input |-> input]

\* Step 3: for (const sel of selectors) { input = querySelector(sel); if (!input) continue;
\* set value; dispatch input, change; setTimeout(..., 50); return }
RECURSIVE mcp_domStrategy(_, _)
mcp_domStrategy(i, text) ==
    IF i > Len(selectors) THEN [log |-> <<>>, input |-> "null"]
    ELSE LET input == querySelector(selectors[i])
         IN  IF input = "null" THEN mcp_domStrategy(i + 1, text)
             ELSE [log |-> <<SetValue(input, text),
                             ElementEvent(input, "input"),
                             ElementEvent(input, "change"),
                             SetTimeout(input, SubmitDelayMs)>>,
                   input |-> input]

\* The whole of sendMessage: what it does to the host, and the element it wrote, if any.
mcp_sendMessage(text) ==
    LET p == mcp_probeSend(1, text)
    IN  IF p.returned THEN [log |-> p.log, input |-> "null"]
        ELSE LET d == mcp_domStrategy(1, text)
             IN  [log |-> p.log \o <<WindowEvent("langgraph:send", [text |-> text])>> \o d.log,
                  input |-> d.input]

\* The callback with the page-level submit button looked up before the form's other
\* buttons.
mcp_submitLater_pageFirst(input) ==
    IF dom.inForm /\ dom.formSubmit THEN <<Click("form button[type=submit]")>>
    ELSE IF dom.pageSubmit THEN <<Click("document button[type=submit]")>>
    ELSE IF dom.inForm /\ dom.formButton THEN <<Click("form button:not([type=button])")>>
    ELSE IF dom.inForm
         THEN (IF dom.namedControl THEN <<FormSubmitThrew("requestSubmit")>>
               ELSE IF dom.requestSubmit THEN <<FormSubmit("requestSubmit")>>
               ELSE <<FormSubmit("submit")>>)
    ELSE <<ElementEvent(input, "keydown:Enter"),
           ElementEvent(input, "keypress:Enter"),
           ElementEvent(input, "keyup:Enter")>>

\* The setTimeout callback of MCPWorkflowCard.sendMessage.
mcp_submitLater(input) ==
    IF dom.inForm /\ dom.formSubmit THEN <<Click("form button[type=submit]")>>
    ELSE IF dom.inForm /\ dom.formButton THEN <<Click("form button:not([type=button])")>>
    ELSE IF dom.pageSubmit THEN <<Click("document button[type=submit]")>>
    ELSE IF dom.inForm
         THEN (IF dom.namedControl THEN <<FormSubmitThrew("requestSubmit")>>
               ELSE IF dom.requestSubmit THEN <<FormSubmit("requestSubmit")>>
               ELSE <<FormSubmit("submit")>>)
    ELSE <<ElementEvent(input, "keydown:Enter"),
           ElementEvent(input, "keypress:Enter"),
           ElementEvent(input, "keyup:Enter")>>

(***************************************************************************)
(* Action Bridge, the copy in ArticleClarifyCard.sendMessage.              *)
(***************************************************************************)
\* for (const fn of globalFns) if function: try { win[fn](text); return } catch {}
RECURSIVE clarify_probeSend(_, _)
clarify_probeSend(i, text) ==
    IF i > Len(globalFns) THEN [log |-> <<>>, returned |-> FALSE]
    ELSE IF ~IsFunction(globalFns[i]) THEN clarify_probeSend(i + 1, text)
    ELSE IF win[globalFns[i]] = "ok"
         THEN [log |-> <<Call(globalFns[i], text)>>, returned |-> TRUE]
         ELSE LET rest == clarify_probeSend(i + 1, text)
              IN  [log |-> <<CallThrew(globalFns[i], text)>> \o rest.log,
                   returned |-> rest.returned]

RECURSIVE clarify_domStrategy(_, _)
clarify_domStrategy(i, text) ==
    IF i > Len(selectors) THEN [log |-> <<>>, input |-> "null"]
    ELSE LET input == querySelector(selectors[i])
         IN  IF input = "null" THEN clarify_domStrategy(i + 1, text)
             ELSE [log |-> <<SetValue(input, text),
                             ElementEvent(input, "input"),
                             ElementEvent(input, "change"),
                             SetTimeout(input, SubmitDelayMs)>>,
                   input |-> input]

clarify_sendMessage(text) ==
    LET p == clarify_probeSend(1, text)
    IN  IF p.returned THEN [log |-> p.log, input |-> "null"]
        ELSE LET d == clarify_domStrategy(1, text)
             IN  [log |-> p.log \o <<WindowEvent("langgraph:send", [text |-> text])>> \o d.log,
                  input |-> d.input]

\* The setTimeout callback of ArticleClarifyCard.sendMessage.
clarify_submitLater(input) ==
    IF dom.inForm /\ dom.formSubmit THEN <<Click("form button[type=submit]")>>
    ELSE IF dom.inForm /\ dom.formButton THEN <<Click("form button:not([type=button])")>>
    ELSE IF dom.pageSubmit THEN <<Click("document button[type=submit]")>>
    ELSE IF dom.inForm
         THEN (IF dom.requestSubmit /\ ~dom.namedControl THEN <<FormSubmit("requestSubmit")>>
               ELSE <<FormSubmit("submit")>>)
    ELSE <<ElementEvent(input, "keydown:Enter"),
           ElementEvent(input, "keypress:Enter"),
           ElementEvent(input, "keyup:Enter")>>

\* The state after a handler whose Action Bridge invocation had effect e, with the
\* effects `before` preceding it in the same handler.
\* The handle setTimeout returns.  The source drops it; here it tells the pending
\* callbacks apart.  At most MaxTimers callbacks are pending, so counting modulo
\* MaxTimers + 1 from the newest one gives every pending callback its own handle.
NextTimerId ==
    ((IF timers = <<>> THEN fired.id ELSE timers[Len(timers)].id) + 1) % (MaxTimers + 1)

\* A pending callback is its closure: the element found, the text of the invocation
\* and the card whose copy of sendMessage scheduled it.
ApplySend(before, e, text, card) ==
    /\ trace' = before \o e.log
    /\ IF e.input = "null"
       THEN UNCHANGED <<inputValue, timers>>
       ELSE /\ inputValue' = [inputValue EXCEPT ![e.input] = text]
            /\ timers' = Append(timers, [input |-> e.input, card |-> card, text |-> text,
                                         id |-> NextTimerId])
    /\ UNCHANGED <<win, dom, fired>>

(***************************************************************************)
(* Resume Bridge, MCPWorkflowCard.resumeInterrupt.                         *)
(***************************************************************************)
\* The fixed fallback texts (the source's two-character Chinese literals,
\* written here by their code points).
ConfirmText == <<"U+786E", "U+8BA4">>

CancelText == <<"U+53D6", "U+6D88">>

\* Step 2 without its return: the loop goes on, and the chain with it, after a call
\* that returned.
RECURSIVE probeResume_noReturn(_, _)
probeResume_noReturn(i, value) ==
    IF i > Len(resumeFns) THEN [log |-> <<>>, returned |-> FALSE]
    ELSE IF ~IsFunction(resumeFns[i]) THEN probeResume_noReturn(i + 1, value)
    ELSE LET rest == probeResume_noReturn(i + 1, value)
         IN  [log |-> <<(IF win[resumeFns[i]] = "ok" THEN Call(resumeFns[i], value)
                         ELSE CallThrew(resumeFns[i], value))>> \o rest.log,
              returned |-> FALSE]

\* Step 2: for (const fn of resumeFns) if function: try { win[fn](value); return } catch {}
RECURSIVE probeResume(_, _)
probeResume(i, value) ==
    IF i > Len(resumeFns) THEN [log |-> <<>>, returned |-> FALSE]
    ELSE IF ~IsFunction(resumeFns[i]) THEN probeResume(i + 1, value)
    ELSE IF win[resumeFns[i]] = "ok"
         THEN [log |-> <<Call(resumeFns[i], value)>>, returned |-> TRUE]
         ELSE LET rest == probeResume(i + 1, value)
              IN  [log |-> <<CallThrew(resumeFns[i], value)>> \o rest.log,
                   returned |-> rest.returned]

\* Step 1: if (typeof win.__LANGGRAPH_RESUME__ === "function") try { call; return } catch {}
dedicatedResume(value) ==
    IF ~IsFunction(dedicatedResumeFn) THEN [log |-> <<>>, returned |-> FALSE]
    ELSE IF win[dedicatedResumeFn] = "ok"
         THEN [log |-> <<Call(dedicatedResumeFn, value)>>, returned |-> TRUE]
         ELSE [log |-> <<CallThrew(dedicatedResumeFn, value)>>, returned |-> FALSE]

\* value?.confirmed ? ConfirmText : CancelText
fallbackText(value) == IF value.confirmed THEN ConfirmText ELSE CancelText

\* The whole of resumeInterrupt: the effects before the Action Bridge, and the
\* Action Bridge invocation it ends with, if it gets there.
resumeInterrupt(value) ==
    LET d == dedicatedResume(value)
    IN  IF d.returned THEN [log |-> d.log, sent |-> FALSE]
        ELSE LET p == probeResume(1, value)
             IN  IF p.returned THEN [log |-> d.log \o p.log, sent |-> FALSE]
                 ELSE [log |-> d.log \o p.log \o <<WindowEvent("langgraph:resume", value)>>,
                       sent |-> TRUE]

(***************************************************************************)
(* Handlers of the MCPWorkflowCard.                                        *)
(***************************************************************************)
\* String(idx + 1) for the option indexes the model reaches
Digits == <<"0", "1", "2", "3", "4", "5", "6", "7", "8", "9">>

RECURSIVE String(_)
String(n) == IF n < 10 THEN <<Digits[n + 1]>> ELSE String(n \div 10) \o <<Digits[(n % 10) + 1]>>

\* onClick of option idx (0-based): props.status === "select" ? () => sendMessage(String(idx + 1)) : undefined
OptionClick_anyStatus(idx) ==
    /\ idx < mcpProps.nOptions
    /\ Len(timers) < MaxTimers
    /\ ApplySend(<<>>, mcp_sendMessage(String(idx + 1)), String(idx + 1), "mcp")
    /\ clicked' = "option"
    /\ UNCHANGED <<mcpProps, clarifyVars, pureVars>>

OptionClick(idx) ==
    /\ mcpProps.status = "select"
    /\ idx < mcpProps.nOptions
    /\ Len(timers) < MaxTimers
    /\ ApplySend(<<>>, mcp_sendMessage(String(idx + 1)), String(idx + 1), "mcp")
    /\ clicked' = "option"
    /\ UNCHANGED <<mcpProps, clarifyVars, pureVars>>

\* The body of handleConfirm / handleCancel: resumeInterrupt(value)
Resume(value) ==
    /\ mcpProps.status = "confirm"
    /\ Len(timers) < MaxTimers
    /\ LET r == resumeInterrupt(value)
       IN  IF r.sent
           THEN ApplySend(r.log, mcp_sendMessage(fallbackText(value)), fallbackText(value), "mcp")
           ELSE /\ trace' = r.log
                /\ UNCHANGED <<win, dom, inputValue, timers, fired>>
    /\ UNCHANGED <<mcpProps, clarifyVars, pureVars>>

\* onClick of the confirm button
handleConfirm == clicked' = "confirm" /\ Resume([confirmed |-> TRUE])

\* a cancel button that resumes with the confirm button's value
handleCancel_confirms == clicked' = "cancel" /\ Resume([confirmed |-> TRUE])

\* onClick of the cancel button
handleCancel == clicked' = "cancel" /\ Resume([confirmed |-> FALSE])

\* The setTimeout callback of the SEO fix button: it clicks the button found at the click.
seo_clickLater(input) == <<Click("form button[type=submit]")>>

\* the callback of the invocation that scheduled it
submitLater(card, input) ==
    IF card = "mcp" THEN mcp_submitLater(input)
    ELSE IF card = "clarify" THEN clarify_submitLater(input)
    ELSE seo_clickLater(input)

\* a callback that writes the text of its own invocation again before it submits
TimerFire_ownText ==
    /\ timers # <<>>
    /\ fired' = [log |-> submitLater(Head(timers).card, Head(timers).input),
                 input |-> Head(timers).input,
                 value |-> Head(timers).text,
                 text |-> Head(timers).text,
                 id |-> Head(timers).id,
                 mcp |-> mcpProps.status]
    /\ inputValue' = [inputValue EXCEPT ![Head(timers).input] = Head(timers).text]
    /\ timers' = Tail(timers)
    /\ trace' = <<>>
    /\ clicked' = "none"
    /\ UNCHANGED <<win, dom, mcpProps, clarifyVars, pureVars>>

\* The oldest pending setTimeout callback runs.
TimerFire ==
    /\ timers # <<>>
    /\ fired' = [log |-> submitLater(Head(timers).card, Head(timers).input),
                 input |-> Head(timers).input,
                 value |-> inputValue[Head(timers).input],
                 text |-> Head(timers).text,
                 id |-> Head(timers).id,
                 mcp |-> mcpProps.status]
    /\ timers' = Tail(timers)
    /\ trace' = <<>>
    /\ clicked' = "none"
    /\ UNCHANGED <<win, dom, inputValue, mcpProps, clarifyVars, pureVars>>

\* the props of a MCPWorkflowCard that is no longer rendered
Unmounted == [status |-> "unmounted", nOptions |-> 0]

\* The backend replaces the card's payload: the card renders the new props.  Nothing
\* of the card refers to the callbacks its sendMessage scheduled.
McpPayloadUpdate(new) ==
    /\ mcpProps # Unmounted
    /\ new # mcpProps
    /\ mcpProps' = new
    /\ trace' = <<>>
    /\ clicked' = "none"
    /\ UNCHANGED <<bridgeVars, clarifyVars, pureVars>>

\* an unmount that clears the callbacks the card scheduled
McpUnmount_clearsTimers ==
    /\ mcpProps # Unmounted
    /\ mcpProps' = Unmounted
    /\ timers' = <<>>
    /\ trace' = <<>>
    /\ clicked' = "none"
    /\ UNCHANGED <<win, dom, inputValue, fired, clarifyVars, pureVars>>

\* The card is unmounted.  It has no effect with a cleanup and keeps no timer handle, so
\* clearTimeout is never called.
McpUnmount ==
    /\ mcpProps # Unmounted
    /\ mcpProps' = Unmounted
    /\ trace' = <<>>
    /\ clicked' = "none"
    /\ UNCHANGED <<bridgeVars, clarifyVars, pureVars>>

(***************************************************************************)
(* Text.  A string is the sequence of its characters; a character outside  *)
(* ASCII is written by its code point.  An optional prop is the empty set  *)
(* when undefined and the singleton of its value otherwise.                *)
(***************************************************************************)
None == {}

Some(v) == {v}

\* opt || dflt, for a string or an array prop ("" is falsy, an array is not)
OrElse(opt, dflt) == IF opt = None THEN dflt ELSE CHOOSE v \in opt : TRUE

RECURSIVE Concat(_)
Concat(ss) == IF ss = <<>> THEN <<>> ELSE Head(ss) \o Concat(Tail(ss))

\* JSON.stringify of one character inside a string
JSONEscape(c) ==
    IF c = "\"" THEN <<"\\", "\"">>
    ELSE IF c = "\\" THEN <<"\\", "\\">>
    ELSE IF c = "\n" THEN <<"\\", "n">>
    ELSE <<c>>

\* JSON.stringify(s) for a string s
JSONString(s) == <<"\"">> \o Concat([i \in 1..Len(s) |-> JSONEscape(s[i])]) \o <<"\"">>

\* JSON.stringify(a) for an array of strings a
JSONStringArray(a) ==
    <<"[">>
    \o Concat([i \in 1..Len(a) |-> (IF i > 1 THEN <<",">> ELSE <<>>) \o JSONString(a[i])])
    \o <<"]">>

KeyTopic == <<"t", "o", "p", "i", "c">>

KeyContentFormat == <<"c", "o", "n", "t", "e", "n", "t", "_", "f", "o", "r", "m", "a", "t">>

KeyTargetAudience == <<"t", "a", "r", "g", "e", "t", "_", "a", "u", "d", "i", "e", "n", "c", "e">>

KeyTone == <<"t", "o", "n", "e">>

\* JSON.stringify(payload) for the payload object of handleSubmit, keys in insertion order
JSONPayload(payload) ==
    <<"{">>
    \o JSONString(KeyTopic) \o <<":">> \o JSONString(payload.topic) \o <<",">>
    \o JSONString(KeyContentFormat) \o <<":">> \o JSONString(payload.content_format) \o <<",">>
    \o JSONString(KeyTargetAudience) \o <<":">> \o JSONString(payload.target_audience) \o <<",">>
    \o JSONString(KeyTone) \o <<":">> \o JSONString(payload.tone)
    \o <<"}">>

SummaryHeader == <<"U+5DF2", "U+5B8C", "U+5584", "U+6587", "U+7AE0", "U+4FE1", "U+606F", "U+FF1A", "\n">>

TopicLabel == <<"-", " ", "U+4E3B", "U+9898", "U+FF1A">>

FormatLabel == <<"-", " ", "U+683C", "U+5F0F", "U+FF1A">>

AudienceLabel == <<"-", " ", "U+53D7", "U+4F17", "U+FF1A">>

ToneLabel == <<"-", " ", "U+98CE", "U+683C", "U+FF1A">>

CommentOpen == <<"<", "!", "-", "-", " ">>

CommentClose == <<" ", "-", "-", ">">>

\* the template literal of handleSubmit
displayContent(payload) ==
    SummaryHeader
    \o TopicLabel \o payload.topic \o <<"\n">>
    \o FormatLabel \o payload.content_format \o <<"\n">>
    \o AudienceLabel \o payload.target_audience \o <<"\n">>
    \o ToneLabel \o payload.tone \o <<"\n", "\n">>
    \o CommentOpen \o JSONPayload(payload) \o CommentClose

(***************************************************************************)
(* Clarify form controller, ArticleClarifyCard.                            *)
(***************************************************************************)
\* useState(props.topic || "") and its three siblings
seedForm(props) ==
    [topic |-> OrElse(props.topic, <<>>),
     contentFormat |-> OrElse(props.content_format, <<>>),
     audience |-> OrElse(props.target_audience, <<>>),
     tone |-> OrElse(props.tone, <<>>)]

\* the second dependency of the submitting effect: JSON.stringify(props.missing || [])
missingKey(props) == JSONStringArray(OrElse(props.missing, <<>>))

\* whether the dependencies [props.question, JSON.stringify(props.missing || [])] changed
roundChanged(old, new) == old.question # new.question \/ missingKey(old) # missingKey(new)

\* the payload fields that seed the four controls
SeedProps == {"topic", "content_format", "target_audience", "tone"}

\* one effect for the four seeds, with all four props as its dependencies
effectsForm_oneEffect(old, new) ==
    IF \E p \in SeedProps : new[p] # old[p] THEN seedForm(new) ELSE form

\* the five useEffect hooks, run after a render with props `new` that follows one with `old`
effectsForm(old, new) ==
    [topic |-> IF new.topic # old.topic THEN OrElse(new.topic, <<>>) ELSE form.topic,
     contentFormat |-> IF new.content_format # old.content_format
                       THEN OrElse(new.content_format, <<>>) ELSE form.contentFormat,
     audience |-> IF new.target_audience # old.target_audience
                  THEN OrElse(new.target_audience, <<>>) ELSE form.audience,
     tone |-> IF new.tone # old.tone THEN OrElse(new.tone, <<>>) ELSE form.tone]

\* the submitting effect with [props.question] as its only dependency
effectsSubmitting_questionOnly(old, new) ==
    IF old.question # new.question THEN FALSE ELSE submitting

effectsSubmitting(old, new) == IF roundChanged(old, new) THEN FALSE ELSE submitting

\* the payload object of handleSubmit
submitPayload ==
    [topic |-> form.topic, content_format |-> form.contentFormat,
     target_audience |-> form.audience, tone |-> form.tone]

\* the test without its typeof: any stream context is taken to have a submit function
hasStreamSubmit_noTypeof == streamCtx # "absent"

\* streamCtx && typeof streamCtx.submit === "function"
hasStreamSubmit == streamCtx \in {"ok", "throws"}

newMessage(content) == [role |-> "user", type |-> "human", content |-> content]

\* handleSubmit without its first line: a click while the guard is true submits again
handleSubmit_noGuard ==
    /\ Len(timers) < MaxTimers
    /\ clarifyLast' = [op |-> "submit", was |-> submitting, question |-> None, missing |-> None,
                       seeds |-> {}]
    /\ submitting' = TRUE
    /\ LET text == displayContent(submitPayload)
           arg == [messages |-> <<newMessage(text)>>]
       IN  IF hasStreamSubmit /\ streamCtx = "ok"
           THEN /\ trace' = <<Call("streamCtx.submit", arg)>>
                /\ UNCHANGED <<win, dom, inputValue, timers, fired>>
           ELSE ApplySend(IF hasStreamSubmit
                          THEN <<CallThrew("streamCtx.submit", arg)>> ELSE <<>>,
                          clarify_sendMessage(text), text, "clarify")
    /\ clicked' = "submit"
    /\ UNCHANGED <<mcpProps, streamCtx, clarifyProps, form, pureVars>>

\* handleSubmit with a guard that is set only when the stream context took the message
handleSubmit_guardOnDelivery ==
    /\ Len(timers) < MaxTimers
    /\ clarifyLast' = [op |-> "submit", was |-> submitting, question |-> None, missing |-> None,
                       seeds |-> {}]
    /\ IF submitting
       THEN /\ trace' = <<>>
            /\ UNCHANGED <<win, dom, inputValue, timers, fired, submitting>>
       ELSE /\ submitting' = (hasStreamSubmit /\ streamCtx = "ok")
            /\ LET text == displayContent(submitPayload)
                   arg == [messages |-> <<newMessage(text)>>]
               IN  IF hasStreamSubmit /\ streamCtx = "ok"
                   THEN /\ trace' = <<Call("streamCtx.submit", arg)>>
                        /\ UNCHANGED <<win, dom, inputValue, timers, fired>>
                   ELSE ApplySend(IF hasStreamSubmit
                                  THEN <<CallThrew("streamCtx.submit", arg)>> ELSE <<>>,
                                  clarify_sendMessage(text), text, "clarify")
    /\ clicked' = "submit"
    /\ UNCHANGED <<mcpProps, streamCtx, clarifyProps, form, pureVars>>

\* handleSubmit
handleSubmit ==
    /\ Len(timers) < MaxTimers
    /\ clarifyLast' = [op |-> "submit", was |-> submitting, question |-> None, missing |-> None,
                       seeds |-> {}]
    /\ IF submitting
       THEN /\ trace' = <<>>
            /\ UNCHANGED <<win, dom, inputValue, timers, fired, submitting>>
       ELSE /\ submitting' = TRUE
            /\ LET text == displayContent(submitPayload)
                   arg == [messages |-> <<newMessage(text)>>]
               IN  IF hasStreamSubmit /\ streamCtx = "ok"
                   THEN /\ trace' = <<Call("streamCtx.submit", arg)>>
                        /\ UNCHANGED <<win, dom, inputValue, timers, fired>>
                   ELSE ApplySend(IF hasStreamSubmit
                                  THEN <<CallThrew("streamCtx.submit", arg)>> ELSE <<>>,
                                  clarify_sendMessage(text), text, "clarify")
    /\ clicked' = "submit"
    /\ UNCHANGED <<mcpProps, streamCtx, clarifyProps, form, pureVars>>

\* onChange of one of the four controls: set<Field>(e.target.value)
FieldNames == {"topic", "contentFormat", "audience", "tone"}

Edit(field, v) ==
    /\ form' = [form EXCEPT ![field] = v]
    /\ clarifyLast' = [op |-> "edit", was |-> submitting, question |-> None, missing |-> None,
                       seeds |-> {}]
    /\ trace' = <<>>
    /\ clicked' = "none"
    /\ UNCHANGED <<bridgeVars, mcpProps, streamCtx, clarifyProps, submitting, pureVars>>

\* The host renders the card with new props; the effects whose dependencies changed run.
PayloadUpdate(new) ==
    /\ form' = effectsForm(clarifyProps, new)
    /\ submitting' = effectsSubmitting(clarifyProps, new)
    /\ clarifyProps' = new
    /\ clarifyLast' = [op |-> "update", was |-> submitting,
                       question |-> clarifyProps.question, missing |-> clarifyProps.missing,
                       seeds |-> {p \in SeedProps : new[p] # clarifyProps[p]}]
    /\ trace' = <<>>
    /\ clicked' = "none"
    /\ UNCHANGED <<bridgeVars, mcpProps, streamCtx, pureVars>>

(***************************************************************************)
(* Progress tracker: the steps.map callbacks of the three multi-step cards.*)
(***************************************************************************)
MaxSteps == 3         \* steps of a multi-step card

\* props.active_step || 1: undefined, 0 (and NaN) are falsy
activeStepOr1(active_step) ==
    IF active_step = None THEN 1
    ELSE LET n == CHOOSE v \in active_step : TRUE IN IF n = 0 THEN 1 ELSE n

\* what the step's dot shows: isDone ? check mark : isActive ? spinner : idx + 1
dot(isDone, isActive) == IF isDone THEN "done" ELSE IF isActive THEN "active" ELSE "pending"

\* SEOPlannerCard, step idx (0-based)
seo_stepState(props, idx) ==
    LET isActive == activeStepOr1(props.active_step) = idx + 1
        isDone == activeStepOr1(props.active_step) > idx + 1
    IN  dot(isDone, isActive)

\* SiteReportCard, step idx (0-based)
report_stepState(props, idx) ==
    LET isActive == activeStepOr1(props.active_step) = idx + 1
        isDone == activeStepOr1(props.active_step) > idx + 1
    IN  dot(isDone, isActive)

\* ReportProgressCard with the cursor compared to the 0-based index
progress_stepState_zeroBased(props, idx) ==
    LET isActive == activeStepOr1(props.active_step) = idx
        isDone == activeStepOr1(props.active_step) > idx
    IN  dot(isDone, isActive)

\* ReportProgressCard, step idx (0-based)
progress_stepState(props, idx) ==
    LET isActive == activeStepOr1(props.active_step) = idx + 1
        isDone == activeStepOr1(props.active_step) > idx + 1
    IN  dot(isDone, isActive)

\* props.status === "loading" && steps.length > 0 ? steps.map(...) : null
renderSteps(card, props) ==
    IF props.status = "loading" /\ Len(props.steps) > 0
    THEN [i \in 1..Len(props.steps) |->
            IF card = "seo_planner" THEN seo_stepState(props, i - 1)
            ELSE IF card = "site_report" THEN report_stepState(props, i - 1)
            ELSE progress_stepState(props, i - 1)]
    ELSE <<>>

StepCards == {"seo_planner", "site_report", "report_progress"}

StepLabels == <<"fetch", "analyze", "summarize", "publish", "notify", "archive">>

StepProps ==
    [status : {"loading", "done", "error"},
     steps : {SubSeq(StepLabels, 1, n) : n \in 0..MaxSteps},
     active_step : {None} \cup {Some(a) : a \in -1..(MaxSteps + 1)}]

\* The host streams a payload for a multi-step card and the card renders.
Render(card, props) ==
    /\ progress' = [card |-> card, props |-> props, states |-> renderSteps(card, props)]
    /\ UNCHANGED <<bridgeVars, trace, mcpProps, clicked, clarifyVars, looked, seoTask, workflow, view>>

(***************************************************************************)
(* SEO planner: the impact and difficulty scales of a task.                *)
(***************************************************************************)
\* the number of glyphs of a full scale
ScaleSize == 5

\* String.prototype.repeat: a negative count throws a RangeError
repeat(glyph, count) ==
    IF count < 0 THEN [threw |-> TRUE, glyphs |-> <<>>]
    ELSE [threw |-> FALSE, glyphs |-> [i \in 1..count |-> glyph]]

\* value || 0
valueOr0(value) == OrElse(value, 0)

\* the filled glyph repeated (value || 0) times, then the empty glyph repeated
\* 5 - (value || 0) times; a throw in either faults the render
scale(value) ==
    LET filled == repeat("filled", valueOr0(value))
        empty  == repeat("empty", ScaleSize - valueOr0(value))
    IN  IF filled.threw \/ empty.threw
        THEN [fault |-> TRUE, glyphs |-> <<>>]
        ELSE [fault |-> FALSE, glyphs |-> filled.glyphs \o empty.glyphs]

\* the fields of a task that its fix button reads
NoFix == [fix_action |-> None, fix_prompt |-> None, title |-> None, issue_type |-> None,
          category |-> None]

NoTask == [rendered |-> FALSE, impact |-> None, difficulty |-> None,
           impactScale |-> scale(None), difficultyScale |-> scale(None), fix |-> NoFix]

\* the two scale spans of one task of the week plan
RenderTask(impact, difficulty) ==
    /\ seoTask' = [rendered |-> TRUE, impact |-> impact, difficulty |-> difficulty,
                   impactScale |-> scale(impact), difficultyScale |-> scale(difficulty),
                   fix |-> seoTask.fix]
    /\ trace' = <<>>
    /\ clicked' = "none"
    /\ UNCHANGED <<bridgeVars, mcpProps, clarifyVars, progress, looked, workflow, view>>

\* text || dflt: an absent and an empty text are falsy
TextOrElse(text, dflt) == IF text = None \/ text = Some(<<>>) THEN dflt ELSE OrElse(text, dflt)

\* a value inside a template string: undefined is written out
TemplateValue(text) ==
    IF text = None THEN <<"u", "n", "d", "e", "f", "i", "n", "e", "d">> ELSE OrElse(text, <<>>)

\* the template of the fallback message around the task's title (the source's Chinese
\* literal, written by its code points)
FixFallback(title) ==
    <<"U+9488", "U+5BF9", "\"">> \o TemplateValue(title)
        \o <<"\"", "U+95EE", "U+9898", "U+FF0C", "U+521B", "U+5EFA", "U+76F8", "U+5173", "U+5185",
             "U+5BB9", "U+8FDB", "U+884C", "U+4F18", "U+5316", "U+3002">>

\* const chatMessage = task.fix_prompt || <template with task.title>
chatMessage(task) == TextOrElse(task.fix.fix_prompt, FixFallback(task.fix.title))

\* the detail of the copilot:send event
fixDetail(task) ==
    [message |-> chatMessage(task), intent |-> "article_task",
     task_info |-> [issue_type |-> task.fix.issue_type, category |-> task.fix.category,
                    title |-> task.fix.title]]

FixDelayMs == 100

\* document.querySelector('textarea[placeholder*="input"], textarea[name="input"],
\* form textarea'), in a document whose only textarea, if any, has neither attribute
fixTextarea == IF dom.textarea /\ dom.inForm THEN "textarea" ELSE "null"

\* form?.querySelector('button[type="submit"]') || document.querySelector(<buttons
\* labelled Submit or send>), in a document with no button so labelled
fixSubmitBtn == dom.inForm /\ dom.formSubmit

\* the cell of the task is rendered, and with it its button, when the render of the
\* scales did not fault and fix_action is "article"
FixButtonShown ==
    /\ seoTask.rendered
    /\ ~seoTask.impactScale.fault /\ ~seoTask.difficultyScale.fault
    /\ seoTask.fix.fix_action = Some("article")

\* onClick of the fix button: the event, then the textarea, then the delayed click
FixClick ==
    /\ FixButtonShown
    /\ Len(timers) < MaxTimers
    /\ LET msg == chatMessage(seoTask)
           event == <<WindowEvent("copilot:send", fixDetail(seoTask))>>
       IN  IF fixTextarea = "null"
           THEN /\ trace' = event
                /\ UNCHANGED <<inputValue, timers>>
           ELSE /\ inputValue' = [inputValue EXCEPT ![fixTextarea] = msg]
                /\ IF fixSubmitBtn
                   THEN /\ trace' = event \o <<SetValue(fixTextarea, msg),
                                                ElementEvent(fixTextarea, "input"),
                                                SetTimeout(fixTextarea, FixDelayMs)>>
                        /\ timers' = Append(timers, [input |-> fixTextarea, card |-> "seo",
                                                     text |-> msg, id |-> NextTimerId])
                   ELSE /\ trace' = event \o <<SetValue(fixTextarea, msg),
                                                ElementEvent(fixTextarea, "input")>>
                        /\ UNCHANGED timers
    /\ clicked' = "fix"
    /\ UNCHANGED <<win, dom, fired, mcpProps, clarifyVars, pureVars>>

(***************************************************************************)
(* Article workflow: which nodes are marked current.                       *)
(***************************************************************************)
\* a truthy string: present and not empty
Truthy(opt) == opt # None /\ opt # Some("")

\* const current = props.current_node || "";
\* isCurrent = current && (current === n.node_code || current === n.node_name)
isCurrent(current, nodes, idx) ==
    /\ Truthy(current)
    /\ current = nodes[idx].node_code \/ current = nodes[idx].node_name

\* props not rendered yet
Unrendered(nodes, current) ==
    [nodes |-> nodes, current |-> current, rendered |-> FALSE, marks |-> <<>>]

NoWorkflow == Unrendered(<<>>, None)

\* the nodes.map callback over props.flow_node_list || [], for the props received
RenderWorkflow ==
    /\ ~workflow.rendered
    /\ workflow' = [workflow EXCEPT
                      !.rendered = TRUE,
                      !.marks = [idx \in 1..Len(workflow.nodes) |->
                                    isCurrent(workflow.current, workflow.nodes, idx)]]
    /\ UNCHANGED <<bridgeVars, trace, mcpProps, clicked, clarifyVars, progress, looked, seoTask, view>>

(***************************************************************************)
(* Card registry: ComponentMap.                                            *)
(***************************************************************************)
\* the object literal with report_insights mapped to the card it wraps
ComponentMap_insightsAsSiteReport ==
    [intent_router |-> "IntentRouterCard",
     article_workflow |-> "ArticleWorkflowCard",
     article_clarify |-> "ArticleClarifyCard",
     mcp_workflow |-> "MCPWorkflowCard",
     seo_planner |-> "SEOPlannerCard",
     site_report |-> "SiteReportCard",
     report_progress |-> "ReportProgressCard",
     report_charts |-> "ReportChartsCard",
     report_insights |-> "SiteReportCard",
     card |-> "IntentRouterCard"]

\* the own properties of the object literal
ComponentMap ==
    [intent_router |-> "IntentRouterCard",
     article_workflow |-> "ArticleWorkflowCard",
     article_clarify |-> "ArticleClarifyCard",
     mcp_workflow |-> "MCPWorkflowCard",
     seo_planner |-> "SEOPlannerCard",
     site_report |-> "SiteReportCard",
     report_progress |-> "ReportProgressCard",
     report_charts |-> "ReportChartsCard",
     report_insights |-> "ReportInsightsCard",
     card |-> "IntentRouterCard"]

\* what an object literal inherits: property names of Object.prototype
ObjectPrototypeKeys == {"constructor", "toString", "valueOf", "hasOwnProperty", "__proto__"}

\* ComponentMap[key]: an own property, else an inherited one, else undefined
lookup(key) ==
    IF key \in DOMAIN ComponentMap THEN ComponentMap[key]
    ELSE IF key \in ObjectPrototypeKeys THEN "Object.prototype." \o key
    ELSE "undefined"

LookupKeys == DOMAIN ComponentMap \cup ObjectPrototypeKeys \cup {"nonexistent", ""}

\* The host looks a component key up.
Lookup(key) ==
    /\ looked' = <<<<key, lookup(key)>>>> \o SubSeq(looked, 1, IF looked = <<>> THEN 0 ELSE 1)
    /\ UNCHANGED <<bridgeVars, trace, mcpProps, clicked, clarifyVars, progress, seoTask, workflow, view>>

(***************************************************************************)
(* What each card shows for a payload.  A payload is its status and the    *)
(* set of optional fields it carries with a truthy value (a non-empty      *)
(* text or list).  A render is a set of sections: the condition under      *)
(* which the section is rendered, the optional fields whose members the    *)
(* section reads, the part of the card and what it shows there.            *)
(***************************************************************************)
Sec(on, reads, part, kind) == [on |-> on, reads |-> reads, part |-> part, kind |-> kind]

\* either the field's value or the literal after ||
DataOr(props, field, part, kind) ==
    {Sec(field \in props.present, {}, part, "data"),
     Sec(field \notin props.present, {}, part, kind)}

IntentRouterCard(props) ==
    {Sec(TRUE, {}, "title", "label"), Sec(TRUE, {}, "badge", "status"),
     Sec("elapsed_s" \in props.present, {}, "elapsed", "data"),
     Sec(props.status = "done", {}, "done", "label"),
     Sec(props.status = "thinking", {}, "thinking", "waiting"),
     Sec("user_text" \in props.present \/ "raw" \in props.present, {}, "details", "data")}
        \cup DataOr(props, "route", "route", "placeholder")
        \cup DataOr(props, "intent", "intent", "placeholder")

ArticleWorkflowCard(props) ==
    {Sec(TRUE, {}, "title", "label"), Sec(TRUE, {}, "badge", "status"),
     Sec("run_id" \in props.present, {}, "run_id", "data"),
     Sec(props.status = "error" /\ "error_message" \in props.present, {}, "error", "data")}
        \cup DataOr(props, "flow_node_list", "nodes", "waiting")

ArticleClarifyCard(props) ==
    {Sec(TRUE, {}, "title", "label"), Sec(TRUE, {}, "badge", "status"),
     Sec("missing" \in props.present, {"missing"}, "missing", "data"),
     Sec("question" \in props.present, {}, "question", "data"),
     Sec(TRUE, {}, "submit", "control")}
        \cup DataOr(props, "topic", "topic", "placeholder")
        \cup DataOr(props, "content_format", "content_format", "placeholder")
        \cup DataOr(props, "target_audience", "target_audience", "placeholder")
        \cup DataOr(props, "tone", "tone", "placeholder")

MCPWorkflowCard(props) ==
    {Sec(TRUE, {}, "badge", "status"),
     Sec("selected" \in props.present, {}, "selected", "data"),
     Sec("message" \in props.present, {}, "message", "data"),
     Sec("options" \in props.present, {"options"}, "options", "data"),
     Sec(props.status = "confirm", {}, "buttons", "control"),
     Sec("result" \in props.present, {}, "result", "data")}
        \cup DataOr(props, "title", "title", "placeholder")

SEOPlannerCard(props) ==
    {Sec(TRUE, {}, "title", "label"), Sec(TRUE, {}, "badge", "status"),
     Sec("tasks.week" \in props.present, {"tasks.week"}, "week", "data"),
     Sec(props.status = "loading" /\ "steps" \in props.present, {}, "steps", "data"),
     Sec(props.status = "done" /\ "tasks.tasks" \in props.present, {}, "tasks", "data"),
     Sec(props.status = "error" /\ "error_message" \in props.present, {}, "error", "data")}

\* the sections of the report's data_quality, trace, step_outputs, actions, content and
\* performance are rendered like its insights: only when the report carries them
SiteReportCard(props) ==
    {Sec(TRUE, {}, "badge", "status"),
     Sec("report.site_id" \in props.present, {"report.site_id"}, "site", "data"),
     Sec(props.status = "loading" /\ "steps" \in props.present, {}, "steps", "data"),
     Sec(props.status = "loading" /\ "message" \in props.present, {}, "message", "data"),
     Sec(props.status = "done" /\ "report.summary" \in props.present, {}, "summary", "data"),
     Sec(props.status # "error" /\ "report.insights" \in props.present, {}, "insights", "data"),
     Sec(props.status = "error" /\ "error_message" \in props.present, {}, "error", "data")}
        \cup DataOr(props, "report.report_type_name", "title", "placeholder")

ReportProgressCard(props) ==
    {Sec(TRUE, {}, "title", "label"), Sec(TRUE, {}, "badge", "status"),
     Sec(props.status = "loading" /\ "steps" \in props.present, {}, "steps", "data"),
     Sec("message" \in props.present, {}, "message", "data"),
     Sec(props.status = "error" /\ "error_message" \in props.present, {}, "error", "data")}

ReportChartsCard(props) ==
    {Sec(TRUE, {}, "title", "label"),
     Sec("message" \in props.present, {}, "message", "data")}
        \cup DataOr(props, "report.charts", "charts", "waiting")

\* const fake = {status, message, report}; <SiteReportCard {...fake} />
ReportInsightsCard(props) ==
    SiteReportCard([status |-> props.status,
                    present |-> props.present \ {"steps", "error_message"}])

Sections(component, props) ==
    CASE component = "IntentRouterCard" -> IntentRouterCard(props)
      [] component = "ArticleWorkflowCard" -> ArticleWorkflowCard(props)
      [] component = "ArticleClarifyCard" -> ArticleClarifyCard(props)
      [] component = "MCPWorkflowCard" -> MCPWorkflowCard(props)
      [] component = "SEOPlannerCard" -> SEOPlannerCard(props)
      [] component = "SiteReportCard" -> SiteReportCard(props)
      [] component = "ReportProgressCard" -> ReportProgressCard(props)
      [] component = "ReportChartsCard" -> ReportChartsCard(props)
      [] component = "ReportInsightsCard" -> ReportInsightsCard(props)

\* the status enumeration of each card's props
Statuses(component) ==
    CASE component = "IntentRouterCard" -> {"thinking", "done", "error"}
      [] component = "ArticleWorkflowCard" -> {"running", "done", "error"}
      [] component = "ArticleClarifyCard" -> {"need_info", "done", "error"}
      [] component = "MCPWorkflowCard" -> MCPStatuses
      [] OTHER -> {"loading", "done", "error"}

\* the optional fields of each card's props that its render reads
Fields(component) ==
    CASE component = "IntentRouterCard" -> {"elapsed_s", "route", "intent", "user_text", "raw"}
      [] component = "ArticleWorkflowCard" -> {"run_id", "flow_node_list", "error_message"}
      [] component = "ArticleClarifyCard" ->
            {"missing", "question", "topic", "content_format", "target_audience", "tone"}
      [] component = "MCPWorkflowCard" -> {"title", "message", "options", "selected", "result"}
      [] component = "SEOPlannerCard" -> {"steps", "tasks.tasks", "tasks.week", "error_message"}
      [] component = "SiteReportCard" ->
            {"steps", "message", "error_message", "report.site_id", "report.report_type_name",
             "report.summary", "report.insights"}
      [] component = "ReportProgressCard" -> {"steps", "message", "error_message"}
      [] component = "ReportChartsCard" -> {"message", "report.charts"}
      [] component = "ReportInsightsCard" ->
            {"message", "report.site_id", "report.report_type_name", "report.summary",
             "report.insights"}

NoView == [key |-> "", status |-> "", present |-> {}, shown |-> {}, fault |-> FALSE]

\* The host renders ComponentMap[key] with a payload: the sections whose condition holds
\* are shown; reading a member of a field the payload lacks throws.
ShowCard(key, props) ==
    /\ key \in DOMAIN ComponentMap
    /\ LET rendered == {s \in Sections(ComponentMap[key], props) : s.on}
       IN  view' = [key |-> key, status |-> props.status, present |-> props.present,
                    shown |-> {[part |-> s.part, kind |-> s.kind] : s \in rendered},
                    fault |-> \E s \in rendered : ~(s.reads \subseteq props.present)]
    /\ UNCHANGED <<bridgeVars, trace, mcpProps, clicked, clarifyVars, progress, looked, seoTask,
                   workflow>>

(***************************************************************************)
(* Specifications.                                                         *)
(***************************************************************************)
NoFired == [log |-> <<>>, input |-> "null", value |-> <<>>, text |-> <<>>, id |-> 0,
            mcp |-> "none"]

NoProps ==
    [question |-> None, missing |-> None, topic |-> None, content_format |-> None,
     target_audience |-> None, tone |-> None]

Mounted == [op |-> "mount", was |-> FALSE, question |-> None, missing |-> None, seeds |-> {}]

InitBridge ==
    /\ inputValue = [textarea |-> <<>>, input |-> <<>>]
    /\ trace = <<>>
    /\ clicked = "none"
    /\ timers = <<>>
    /\ fired = NoFired

\* after the first render of a Clarify card with these props
InitClarifyCard(props) ==
    /\ clarifyProps = props
    /\ form = seedForm(props)
    /\ submitting = FALSE
    /\ clarifyLast = Mounted

NoProgress ==
    [card |-> "none", props |-> [status |-> "done", steps |-> <<>>, active_step |-> None],
     states |-> <<>>]

InitPure ==
    /\ progress = NoProgress
    /\ looked = <<>>
    /\ seoTask = NoTask
    /\ workflow = NoWorkflow
    /\ view = NoView

BareWindow == [fn \in SendNames \cup ResumeNames |-> "absent"]

BareDocument ==
    [textarea |-> FALSE, textInput |-> FALSE, inForm |-> FALSE, formSubmit |-> FALSE,
     formButton |-> FALSE, pageSubmit |-> FALSE, requestSubmit |-> FALSE,
     namedControl |-> FALSE]

\* A select card and a Clarify card in any host without resume functions and
\* stream context: every combination of send functions and document.  The user acts
\* at human speed: no click while a delayed submit is pending (SpecTimer has the
\* clicks that overtake a pending submit).
InitSend ==
    /\ InitBridge
    /\ InitPure
    /\ win \in {w \in [SendNames \cup ResumeNames -> FnStates] :
                   \A fn \in ResumeNames : w[fn] = "absent"}
    /\ dom \in DomStates
    /\ mcpProps \in [status : {"select"}, nOptions : {MaxOptions}]
    /\ streamCtx = "absent"
    /\ InitClarifyCard(NoProps)

NextSend ==
    \/ timers = <<>> /\ \E idx \in 0..(MaxOptions - 1) : OptionClick(idx)
    \/ timers = <<>> /\ handleSubmit
    \/ TimerFire

SpecSend == InitSend /\ [][NextSend]_vars

\* A confirm card in any host: every combination of resume and send functions,
\* in a document without forms or buttons.
InitResume ==
    /\ InitBridge
    /\ InitPure
    /\ win \in [SendNames \cup ResumeNames -> FnStates]
    /\ dom \in {d \in DomStates : ~d.inForm /\ ~d.pageSubmit}
    /\ mcpProps \in [status : {"confirm"}, nOptions : {0}]
    /\ streamCtx = "absent"
    /\ InitClarifyCard(NoProps)

NextResume ==
    \/ handleConfirm
    \/ handleCancel
    \/ TimerFire

SpecResume == InitResume /\ [][NextResume]_vars

\* Multi-step cards rendered with every payload.
InitProgress ==
    /\ InitBridge
    /\ InitPure
    /\ win = BareWindow
    /\ dom = BareDocument
    /\ mcpProps = [status |-> "done", nOptions |-> 0]
    /\ streamCtx = "absent"
    /\ InitClarifyCard(NoProps)

NextProgress == \E card \in StepCards, props \in StepProps : Render(card, props)

SpecProgress == InitProgress /\ [][NextProgress]_vars

\* Lookups of registered and unregistered keys.
NextRegistry == \E key \in LookupKeys : Lookup(key)

SpecRegistry == InitProgress /\ [][NextRegistry]_vars

\* Option clicks of a select card in a host with no send function and an input
\* element, in a form or not, with no button to click, so that every click reaches
\* the DOM strategy, while the backend replaces
\* the card's payload and the card is unmounted.  The event loop runs a callback whose
\* delay has passed: the callback's step is weakly fair.
InitTimer ==
    /\ InitBridge
    /\ InitPure
    /\ win = BareWindow
    /\ dom \in {d \in DomStates : (d.textarea \/ d.textInput) /\ ~d.formButton
                                      /\ ~d.pageSubmit /\ ~d.requestSubmit}
    /\ mcpProps \in [status : {"select"}, nOptions : {MaxOptions}]
    /\ streamCtx = "absent"
    /\ InitClarifyCard(NoProps)

NextTimer ==
    \/ \E idx \in 0..(MaxOptions - 1) : OptionClick(idx)
    \/ \E new \in [status : {"select", "running", "done"}, nOptions : {MaxOptions}] :
          McpPayloadUpdate(new)
    \/ McpUnmount
    \/ TimerFire

SpecTimer == InitTimer /\ [][NextTimer]_vars /\ WF_vars(TimerFire)

\* Renders of workflows of up to MaxNodes nodes whose codes and names are absent,
\* empty or one of two identifiers, so that two nodes can share a code and a name can
\* equal another node's code.
NodeRefs == {None, Some(""), Some("a"), Some("b")}

WorkflowNodes == [node_code : NodeRefs, node_name : NodeRefs]

NodeLists == UNION {[1..n -> WorkflowNodes] : n \in 0..MaxNodes}

InitWorkflow ==
    /\ InitBridge
    /\ win = BareWindow
    /\ dom = BareDocument
    /\ mcpProps = [status |-> "done", nOptions |-> 0]
    /\ streamCtx = "absent"
    /\ InitClarifyCard(NoProps)
    /\ progress = NoProgress
    /\ looked = <<>>
    /\ seoTask = NoTask
    /\ view = NoView
    /\ \E nodes \in NodeLists, current \in NodeRefs : workflow = Unrendered(nodes, current)

NextWorkflow == RenderWorkflow

SpecWorkflow == InitWorkflow /\ [][NextWorkflow]_vars

\* Every registered card is rendered with every status of its enumeration and every
\* combination of its optional fields, the empty one included.
NextCards ==
    \E key \in DOMAIN ComponentMap :
        \E status \in Statuses(ComponentMap[key]), present \in SUBSET Fields(ComponentMap[key]) :
            ShowCard(key, [status |-> status, present |-> present])

SpecCards == InitProgress /\ [][NextCards]_vars

\* An SEO task with or without a fix prompt and a title is rendered, with an impact
\* inside or outside the scale, and its fix button is clicked, in a document with no
\* textarea or with one, in a form with a submit button or not.
FixTexts == {None, Some(<<>>), Some(<<"P">>)}

FixTasks ==
    [fix_action : {Some("article"), Some("link")}, fix_prompt : FixTexts,
     title : {None, Some(<<"T">>)}, issue_type : {None, Some("missing_meta")},
     category : {None}]

FixImpacts == {None, Some(0), Some(3), Some(ScaleSize), Some(MaxScale), Some(0 - 1)}

InitFix ==
    /\ InitBridge
    /\ win = BareWindow
    /\ dom \in {d \in DomStates : ~d.textInput /\ ~d.requestSubmit /\ d.pageSubmit = d.formSubmit
                                      /\ d.formButton = d.formSubmit}
    /\ mcpProps = [status |-> "done", nOptions |-> 0]
    /\ streamCtx = "absent"
    /\ InitClarifyCard(NoProps)
    /\ progress = NoProgress
    /\ looked = <<>>
    /\ workflow = NoWorkflow
    /\ view = NoView
    /\ \E fix \in FixTasks : seoTask = [NoTask EXCEPT !.fix = fix]

NextFix ==
    \/ \E impact \in FixImpacts : RenderTask(impact, Some(3))
    \/ FixClick
    \/ TimerFire

SpecFix == InitFix /\ [][NextFix]_vars

\* Renders of SEO tasks whose impact and difficulty are undefined or any integer of
\* the range, negative values and values above the scale included.
ScaleValues == {None} \cup {Some(n) : n \in (0 - MaxScale)..MaxScale}

NextScale == \E impact \in ScaleValues, difficulty \in ScaleValues : RenderTask(impact, difficulty)

SpecScale == InitProgress /\ [][NextScale]_vars

\* A Clarify card through rounds of payloads, edits and submits, in a host with no
\* send function and no input element, with and without a stream context.  The
\* backend has collected the topic and the tone, or neither, or one of them.
MaxChanged == 2       \* props that differ between one payload and the next

Q1 == <<"Q", "1">>

Q2 == <<"Q", "2">>

ClarifyProps ==
    [question : {None, Some(Q1), Some(Q2)},
     missing : {None, Some(<<>>), Some(<<KeyTone>>)},
     topic : {None, Some(<<"A">>)},
     content_format : {None},
     target_audience : {None},
     tone : {None, Some(<<"A">>)}]

EditValues == {<<"B">>}

PropNames == {"question", "missing", "topic", "content_format", "target_audience", "tone"}

InitClarify ==
    /\ InitBridge
    /\ InitPure
    /\ win = BareWindow
    /\ dom = BareDocument
    /\ mcpProps = [status |-> "done", nOptions |-> 0]
    /\ streamCtx \in {"absent", "ok"}
    /\ \E props \in ClarifyProps : InitClarifyCard(props)

NextClarify ==
    \/ handleSubmit
    \/ \E field \in FieldNames, v \in EditValues : Edit(field, v)
    \/ \E new \in ClarifyProps :
          /\ Cardinality({p \in PropNames : new[p] # clarifyProps[p]}) <= MaxChanged
          /\ PayloadUpdate(new)

SpecClarify == InitClarify /\ [][NextClarify]_vars

\* A Clarify card in a host where no channel delivers: the stream context is absent,
\* has no submit function or has one that throws, no global send function exists and
\* the document has no input.
InitUndelivered ==
    /\ InitBridge
    /\ InitPure
    /\ win = BareWindow
    /\ dom = BareDocument
    /\ mcpProps = [status |-> "done", nOptions |-> 0]
    /\ streamCtx \in {"absent", "noSubmit", "throws"}
    /\ \E props \in ClarifyProps : InitClarifyCard(props)

SpecUndelivered == InitUndelivered /\ [][NextClarify]_vars

\* A confirm/select card that the host takes through every status, with and without
\* options, while the user clicks whatever the card offers; the host may have a send
\* function and a dedicated resume function, working or throwing.
InitStatus ==
    /\ InitBridge
    /\ InitPure
    /\ win \in {w \in [SendNames \cup ResumeNames -> FnStates] :
                   \A fn \in SendNames \cup ResumeNames :
                       fn \notin {"sendMessage", dedicatedResumeFn} => w[fn] = "absent"}
    /\ dom = BareDocument
    /\ mcpProps \in [status : MCPStatuses, nOptions : {0, MaxOptions}]
    /\ streamCtx = "absent"
    /\ InitClarifyCard(NoProps)

NextStatus ==
    \/ \E idx \in 0..(MaxOptions - 1) : OptionClick(idx)
    \/ handleConfirm
    \/ handleCancel
    \/ \E new \in [status : MCPStatuses, nOptions : {0, MaxOptions}] : McpPayloadUpdate(new)

SpecStatus == InitStatus /\ [][NextStatus]_vars

\* A select card and a Clarify card side by side in the same host: any two of the send
\* functions, any document, forms with a control named "requestSubmit" included.
InitCopies ==
    /\ InitBridge
    /\ InitPure
    /\ win \in {w \in [SendNames \cup ResumeNames -> FnStates] :
                   \A fn \in SendNames \cup ResumeNames :
                       fn \notin {"__LANGGRAPH_SEND__", "sendMessage"} => w[fn] = "absent"}
    /\ dom \in NamedDomStates
    /\ mcpProps = [status |-> "select", nOptions |-> MaxOptions]
    /\ streamCtx = "absent"
    /\ InitClarifyCard(NoProps)

NextCopies ==
    \/ timers = <<>> /\ \E idx \in 0..(MaxOptions - 1) : OptionClick(idx)
    \/ timers = <<>> /\ handleSubmit
    \/ TimerFire

SpecCopies == InitCopies /\ [][NextCopies]_vars

\* A Clarify card whose user types, among others, quotes, backslashes, line breaks
\* and comment delimiters, then submits.
RichValues ==
    {<<>>, <<"A">>, <<"\"">>, <<"\\">>, <<"\n">>, <<"-", "-", ">">>, <<"<", "!", "-", "-">>}

InitCompose ==
    /\ InitBridge
    /\ InitPure
    /\ win = BareWindow
    /\ dom = BareDocument
    /\ mcpProps = [status |-> "done", nOptions |-> 0]
    /\ streamCtx \in {"absent", "noSubmit", "ok", "throws"}
    /\ InitClarifyCard(NoProps)

NextCompose ==
    \/ handleSubmit
    \/ \E field \in FieldNames, v \in RichValues : Edit(field, v)

SpecCompose == InitCompose /\ [][NextCompose]_vars

(***************************************************************************)
(* The reader of the outbound action encoding: the comments of a message,  *)
(* scanned left to right as in HTML, and JSON.parse of an object whose     *)
(* values are strings.                                                     *)
(***************************************************************************)
StartsAt(t, i, pat) ==
    /\ i >= 1
    /\ i + Len(pat) - 1 <= Len(t)
    /\ SubSeq(t, i, i + Len(pat) - 1) = pat

\* the least position >= i at which pat starts, or 0
RECURSIVE FindFrom(_, _, _)
FindFrom(t, i, pat) ==
    IF i + Len(pat) - 1 > Len(t) THEN 0
    ELSE IF StartsAt(t, i, pat) THEN i
    ELSE FindFrom(t, i + 1, pat)

OpenDelimiter == <<"<", "!", "-", "-">>

CloseDelimiter == <<"-", "-", ">">>

\* the comments of t from position i on: <<first, last>> positions of each, delimiters included
RECURSIVE Comments(_, _)
Comments(t, i) ==
    LET open == FindFrom(t, i, OpenDelimiter)
        close == FindFrom(t, open + Len(OpenDelimiter), CloseDelimiter)
    IN  IF open = 0 \/ close = 0 THEN <<>>
        ELSE <<<<open, close + Len(CloseDelimiter) - 1>>>>
                 \o Comments(t, close + Len(CloseDelimiter))

\* the text between the delimiters of comment c
CommentBody(t, c) == SubSeq(t, c[1] + Len(OpenDelimiter), c[2] - Len(CloseDelimiter))

IsWhitespace(c) == c \in {" ", "\n", "\t", "\r"}

RECURSIVE SkipWhitespace(_, _)
SkipWhitespace(t, i) ==
    IF i <= Len(t) /\ IsWhitespace(t[i]) THEN SkipWhitespace(t, i + 1) ELSE i

ParseFailure == [ok |-> FALSE, val |-> <<>>, obj |-> {}, next |-> 0]

\* the rest of a JSON string whose opening quote precedes position i
RECURSIVE ScanString(_, _, _)
ScanString(t, i, acc) ==
    IF i > Len(t) THEN ParseFailure
    ELSE IF t[i] = "\"" THEN [ok |-> TRUE, val |-> acc, obj |-> {}, next |-> i + 1]
    ELSE IF t[i] = "\\"
         THEN IF i + 1 > Len(t) THEN ParseFailure
              ELSE IF t[i + 1] \in {"\"", "\\", "/"}
                   THEN ScanString(t, i + 2, Append(acc, t[i + 1]))
              ELSE IF t[i + 1] = "n" THEN ScanString(t, i + 2, Append(acc, "\n"))
              ELSE ParseFailure
    ELSE IF t[i] \in {"\n", "\t", "\r"} THEN ParseFailure
    ELSE ScanString(t, i + 1, Append(acc, t[i]))

ParseStringAt(t, i) ==
    IF i <= Len(t) /\ t[i] = "\"" THEN ScanString(t, i + 1, <<>>) ELSE ParseFailure

\* the members of an object from position i on, up to its closing brace
RECURSIVE ParseMembers(_, _, _)
ParseMembers(t, i, acc) ==
    LET k == ParseStringAt(t, SkipWhitespace(t, i))
        colon == SkipWhitespace(t, k.next)
        v == ParseStringAt(t, SkipWhitespace(t, colon + 1))
        acc2 == {p \in acc : p[1] # k.val} \cup {<<k.val, v.val>>}
        e == SkipWhitespace(t, v.next)
    IN  IF ~k.ok THEN ParseFailure
        ELSE IF colon > Len(t) \/ t[colon] # ":" THEN ParseFailure
        ELSE IF ~v.ok THEN ParseFailure
        ELSE IF e > Len(t) THEN ParseFailure
        ELSE IF t[e] = "," THEN ParseMembers(t, e + 1, acc2)
        ELSE IF t[e] = "}" THEN [ok |-> TRUE, val |-> <<>>, obj |-> acc2, next |-> e + 1]
        ELSE ParseFailure

\* JSON.parse(t) when t is an object of strings: its <<key, value>> pairs
JSONParseObject(t) ==
    LET s == SkipWhitespace(t, 1)
        m == SkipWhitespace(t, s + 1)
        r == IF m <= Len(t) /\ t[m] = "}"
             THEN [ok |-> TRUE, val |-> <<>>, obj |-> {}, next |-> m + 1]
             ELSE ParseMembers(t, m, {})
    IN  IF s > Len(t) \/ t[s] # "{" THEN ParseFailure
        ELSE IF r.ok /\ SkipWhitespace(t, r.next) > Len(t) THEN r
        ELSE ParseFailure

(***************************************************************************)
(* Claims.                                                                 *)
(***************************************************************************)
IsSendCall(e) == e.op = "call" /\ e.target \in SendNames

IsSendEvent(e) == e.op = "windowEvent" /\ e.target = "langgraph:send"

IsDomStep(e) == e.op \in {"setValue", "elementEvent", "setTimeout"}

IsResumeCall(e) == e.op \in {"call", "callThrew"} /\ e.target \in ResumeNames

IsResumeEvent(e) == e.op = "windowEvent" /\ e.target = "langgraph:resume"

IsActionBridge(e) ==
    \/ e.op \in {"call", "callThrew"} /\ e.target \in SendNames
    \/ IsSendEvent(e)
    \/ IsDomStep(e)

\* C1: in an Action Bridge invocation in which a global send function was called and
\* returned, the langgraph:send event is not broadcast, no input value is written
\* and no delayed submit is scheduled.
C1_ReturnedSendStopsChain ==
    (\E i \in 1..Len(trace) : IsSendCall(trace[i]))
        => \A j \in 1..Len(trace) : ~IsSendEvent(trace[j]) /\ ~IsDomStep(trace[j])

\* C1 happens: the first send function threw, a later one returned, and the document
\* has a textarea the DOM strategy would have written.
C1_Witness ==
    /\ dom.textarea
    /\ Len(trace) = 2
    /\ trace[1].op = "callThrew" /\ trace[1].target = globalFns[1]
    /\ IsSendCall(trace[2])
    /\ inputValue.textarea = <<>>
    /\ timers = <<>>

\* C2: in an invocation nothing runs after a dispatching strategy: nothing after a
\* send function that returned, and no DOM step after the langgraph:send broadcast.
C2_NothingAfterDispatch ==
    \A i \in 1..Len(trace) :
        (IsSendCall(trace[i]) \/ IsSendEvent(trace[i]))
            => \A j \in (i + 1)..Len(trace) : ~IsActionBridge(trace[j])

\* C3: with active_step absent or in 1..len(steps), step i is done iff i < active_step,
\* active iff i = active_step and pending iff i > active_step, absent counting as 1,
\* in each of the three cards.
C3_StepStates ==
    LET p == progress.props
        n == Len(p.steps)
        a == IF p.active_step = None THEN 1 ELSE CHOOSE v \in p.active_step : TRUE
    IN  (progress.card \in StepCards /\ p.status = "loading" /\ a \in 1..n)
            => /\ Len(progress.states) = n
               /\ \A i \in 1..n :
                    /\ (progress.states[i] = "done") <=> (i < a)
                    /\ (progress.states[i] = "active") <=> (i = a)
                    /\ (progress.states[i] = "pending") <=> (i > a)

\* C3 happens: the report progress card with three steps and active_step 2.
C3_Witness ==
    /\ progress.card = "report_progress"
    /\ progress.props.status = "loading"
    /\ Len(progress.props.steps) = 3
    /\ progress.props.active_step = Some(2)
    /\ progress.states = <<"done", "active", "pending">>

\* C4: outside the range too: with active_step = 0 every step is pending, and with
\* active_step > len(steps) every step is done.
C4_OutOfRange ==
    LET p == progress.props
        n == Len(p.steps)
    IN  (progress.card \in StepCards /\ p.status = "loading" /\ n > 0)
            => /\ p.active_step = Some(0)
                    => \A i \in 1..n : progress.states[i] = "pending"
               /\ (\E a \in p.active_step : a > n)
                    => \A i \in 1..n : progress.states[i] = "done"

\* C5: after a submit the guard is true; a payload update that finds it true resets
\* it iff the question or the serialized missing list differs from the previous payload.
C5_SubmittingGuard ==
    /\ clarifyLast.op = "submit" => submitting
    /\ (clarifyLast.op = "update" /\ clarifyLast.was)
        => (~submitting <=>
                \/ clarifyLast.question # clarifyProps.question
                \/ JSONStringArray(OrElse(clarifyLast.missing, <<>>))
                     # JSONStringArray(OrElse(clarifyProps.missing, <<>>)))

\* C5 happens: after a submit, an update whose missing list went from absent to the
\* empty array (the same serialization) left the guard true.
C5_Witness ==
    /\ clarifyLast.op = "update"
    /\ clarifyLast.was
    /\ clarifyLast.missing = None
    /\ clarifyProps.missing = Some(<<>>)
    /\ submitting

\* C7: a key that is not registered looks up to undefined.
C7_UnknownKeyAbsent ==
    \A i \in 1..Len(looked) :
        looked[i][1] \notin DOMAIN ComponentMap => looked[i][2] = "undefined"

\* C8: card and intent_router resolve to the same renderer, and no other two
\* distinct registered keys do.
C8_OneAlias ==
    (Len(looked) = 2 /\ looked[1][1] \in DOMAIN ComponentMap
                     /\ looked[2][1] \in DOMAIN ComponentMap
                     /\ looked[1][1] # looked[2][1])
        => (looked[1][2] = looked[2][2]
                <=> {looked[1][1], looked[2][1]} = {"card", "intent_router"})

\* C8 happens: intent_router, then card, were looked up.
C8_Witness ==
    /\ Len(looked) = 2
    /\ looked[1][1] = "card"
    /\ looked[2][1] = "intent_router"
    /\ looked[1][2] = looked[2][2]

\* the place of a resume strategy in the chain
ResumeRank(e) ==
    IF e.target = dedicatedResumeFn THEN 1
    ELSE IF e.target \in ResumeNames
         THEN 1 + (CHOOSE k \in 1..Len(resumeFns) : resumeFns[k] = e.target)
    ELSE IF IsResumeEvent(e) THEN 2 + Len(resumeFns)
    ELSE 3 + Len(resumeFns)

\* the resume functions in chain order
ResumeChain == <<dedicatedResumeFn>> \o resumeFns

\* C9: a Resume Bridge invocation tries the dedicated function, then resumeThread,
\* resume, sendResume, then the event, then the Action Bridge; a function is called
\* iff it exists and none before it returned; after one returned nothing else happens.
C9_ResumeOrder ==
    trace # <<>> =>
        /\ \A i, j \in 1..Len(trace) :
              i < j => /\ ResumeRank(trace[i]) <= ResumeRank(trace[j])
                       /\ IsResumeCall(trace[j]) => ResumeRank(trace[i]) < ResumeRank(trace[j])
        /\ \A k \in 1..Len(ResumeChain) :
              (\E i \in 1..Len(trace) : IsResumeCall(trace[i]) /\ trace[i].target = ResumeChain[k])
                  <=> /\ win[ResumeChain[k]] # "absent"
                      /\ \A m \in 1..(k - 1) : win[ResumeChain[m]] # "ok"
        /\ \A i \in 1..Len(trace) :
              (trace[i].op = "call" /\ trace[i].target \in ResumeNames) => i = Len(trace)

\* C9 happens: the dedicated function threw, resumeThread is absent, resume returned,
\* and sendResume, which exists, was not called.
C9_Witness ==
    /\ win["sendResume"] = "ok"
    /\ Len(trace) = 2
    /\ trace[1] = CallThrew(dedicatedResumeFn, [confirmed |-> TRUE])
    /\ trace[2] = Call("resume", [confirmed |-> TRUE])

\* C10: in an invocation in which the langgraph:resume event was broadcast, the
\* Action Bridge is not invoked.
C10_NoTextAfterResumeEvent ==
    (\E i \in 1..Len(trace) : IsResumeEvent(trace[i]))
        => \A j \in 1..Len(trace) : ~IsActionBridge(trace[j])

\* the text a Clarify submit handed to its delivery channel
SubmittedText ==
    IF trace[1].target = "streamCtx.submit" THEN trace[1].arg.messages[1].content
    ELSE trace[1].arg.text

FormPairs ==
    {<<KeyTopic, form.topic>>, <<KeyContentFormat, form.contentFormat>>,
     <<KeyTargetAudience, form.audience>>, <<KeyTone, form.tone>>}

\* the last comment of t ends t, and its body parses to exactly the pairs
RoundTrips(t, pairs) ==
    LET cs == Comments(t, 1)
    IN  /\ cs # <<>>
        /\ cs[Len(cs)][2] = Len(t)
        /\ JSONParseObject(CommentBody(t, cs[Len(cs)])).ok
        /\ JSONParseObject(CommentBody(t, cs[Len(cs)])).obj = pairs

\* C6: for all values of the four fields, the submitted message ends with a comment
\* whose body, taken between the comment delimiters and parsed as JSON, is exactly
\* the object of the four field values.
C6_RoundTrip ==
    (clarifyLast.op = "submit" /\ ~clarifyLast.was) => RoundTrips(SubmittedText, FormPairs)

\* the text every Action Bridge step of the trace carries, if they agree
CarriesText(e, text) ==
    \/ e.op \in {"call", "callThrew"} /\ e.target \in SendNames /\ e.arg = text
    \/ IsSendEvent(e) /\ e.arg = [text |-> text]
    \/ e.op = "setValue" /\ e.arg = text
    \/ e.op \in {"elementEvent", "setTimeout"}

\* C11: the confirm button delivers exactly {confirmed: true} and the cancel button
\* exactly {confirmed: false}: every resume function called and the langgraph:resume
\* event receive that value, and the text fallback is the confirm text iff confirmed.
C11_ResumeValue ==
    clicked \in {"confirm", "cancel"} =>
        \A i \in 1..Len(trace) :
            /\ (IsResumeCall(trace[i]) \/ IsResumeEvent(trace[i]))
                 => trace[i].arg = [confirmed |-> (clicked = "confirm")]
            /\ IsActionBridge(trace[i])
                 => CarriesText(trace[i], IF clicked = "confirm" THEN <<"U+786E", "U+8BA4">>
                                          ELSE <<"U+53D6", "U+6D88">>)

\* C11 happens: cancel was clicked, the dedicated function threw, the event was
\* broadcast and the cancel text was written to the textarea.
C11_Witness ==
    /\ clicked = "cancel"
    /\ \E i \in 1..Len(trace) :
          /\ trace[i].op = "callThrew" /\ trace[i].target = dedicatedResumeFn
          /\ trace[i].arg = [confirmed |-> FALSE]
    /\ \E i \in 1..Len(trace) :
          IsResumeEvent(trace[i]) /\ trace[i].arg = [confirmed |-> FALSE]
    /\ \E i \in 1..Len(trace) :
          /\ trace[i].op = "setValue" /\ trace[i].target = "textarea"
          /\ trace[i].arg = <<"U+53D6", "U+6D88">>

Clamp(v) == IF v < 0 THEN 0 ELSE IF v > ScaleSize THEN ScaleSize ELSE v

Clamped(value, sc) ==
    /\ ~sc.fault
    /\ Len(sc.glyphs) = ScaleSize
    /\ \A i \in 1..ScaleSize :
          sc.glyphs[i] = IF i <= Clamp(valueOr0(value)) THEN "filled" ELSE "empty"

\* C12: for every integer impact or difficulty, values below 0 and above 5 included,
\* the rendered scale is exactly 5 glyphs, min(max(value, 0), 5) of them filled and the
\* rest empty, and rendering completes without a fault.
C12_ClampedScale ==
    seoTask.rendered =>
        /\ Clamped(seoTask.impact, seoTask.impactScale)
        /\ Clamped(seoTask.difficulty, seoTask.difficultyScale)

\* the position of an effect in the chain of the two bridges: the resume functions,
\* the resume event, the send functions, the send event, the DOM strategy
ChainRank(e) ==
    IF IsResumeCall(e) \/ IsResumeEvent(e) THEN ResumeRank(e)
    ELSE IF e.op \in {"call", "callThrew"} /\ e.target \in SendNames
         THEN 2 + Len(resumeFns) + (CHOOSE k \in 1..Len(globalFns) : globalFns[k] = e.target)
    ELSE IF IsSendEvent(e) THEN 3 + Len(resumeFns) + Len(globalFns)
    ELSE 4 + Len(resumeFns) + Len(globalFns)

\* C13: neither bridge propagates a failure: after a probed function that threw, the
\* invocation goes on with a later strategy, and every invocation runs to one of its
\* regular ends (a call that returned, the send event, or the scheduled submit), for
\* every combination of present, absent and throwing host functions.
C13_FailureCaught ==
    trace # <<>> =>
        /\ \A i \in 1..Len(trace) :
              trace[i].op = "callThrew"
                  => i < Len(trace) /\ ChainRank(trace[i + 1]) > ChainRank(trace[i])
        /\ \/ trace[Len(trace)].op = "call"
           \/ IsSendEvent(trace[Len(trace)])
           \/ trace[Len(trace)].op = "setTimeout"

\* C13 happens: all eight host functions exist and throw, and the invocation still
\* reaches both events and schedules the submit.
C13_Witness ==
    /\ clicked = "confirm"
    /\ \A fn \in SendNames \cup ResumeNames :
          \E i \in 1..Len(trace) : trace[i].op = "callThrew" /\ trace[i].target = fn
    /\ \E i \in 1..Len(trace) : IsResumeEvent(trace[i])
    /\ \E i \in 1..Len(trace) : IsSendEvent(trace[i])
    /\ trace[Len(trace)].op = "setTimeout"

\* no global send function returns, and the document has neither a textarea nor a
\* text input
Exhausted ==
    /\ \A fn \in SendNames : win[fn] # "ok"
    /\ ~dom.textarea /\ ~dom.textInput

\* C14: when the chain is exhausted an Action Bridge invocation (an option click, or
\* a Clarify submit that passed the guard, with no stream context) ends having only
\* broadcast the event: besides the swallowed calls the event is its one effect, no
\* element is written, no delayed submit is scheduled or pending, and the card's
\* props are as they were.
C14_ExhaustedOnlyBroadcasts ==
    (Exhausted /\ (clicked = "option" \/ (clicked = "submit" /\ ~clarifyLast.was))) =>
        /\ trace # <<>>
        /\ IsSendEvent(trace[Len(trace)])
        /\ \A i \in 1..(Len(trace) - 1) :
              trace[i].op = "callThrew" /\ trace[i].target \in SendNames
        /\ timers = <<>>
        /\ \A el \in DOMAIN inputValue : inputValue[el] = <<>>
        /\ fired = NoFired
        /\ mcpProps = [status |-> "select", nOptions |-> MaxOptions]

\* C14 happens: an option was clicked in a host whose only send function throws and
\* whose document has no input; the event is the last thing the invocation did.
C14_Witness ==
    /\ Exhausted
    /\ clicked = "option"
    /\ Len(trace) = 2
    /\ trace[1].op = "callThrew"
    /\ IsSendEvent(trace[2])

\* a call of a global send function, returned or thrown
IsSendAttempt(e) == e.op \in {"call", "callThrew"} /\ e.target \in SendNames

\* the step was an Action Bridge invocation by one of the two cards
BridgeInvoked == clicked = "option" \/ (clicked = "submit" /\ ~clarifyLast.was)

\* C15 as stated: step 1 calls at most one global send function per invocation, the
\* first one found in the probe order, and calls no other one when that call throws.
C15_OnlyFirstFound ==
    BridgeInvoked =>
        \A i, j \in 1..Len(trace) :
            (IsSendAttempt(trace[i]) /\ IsSendAttempt(trace[j])) => i = j

\* C15, amended: step 1 calls the global send functions that exist, in the probe
\* order, until one returns: a function is called iff it exists and none before it
\* returned; at most one call returns and nothing follows it; the event is broadcast
\* iff no call returned.
C15_SendCallsUntilReturn ==
    BridgeInvoked =>
        /\ \A k \in 1..Len(globalFns) :
              (\E i \in 1..Len(trace) : IsSendAttempt(trace[i]) /\ trace[i].target = globalFns[k])
                  <=> /\ win[globalFns[k]] # "absent"
                      /\ \A m \in 1..(k - 1) : win[globalFns[m]] # "ok"
        /\ \A i, j \in 1..Len(trace) :
              (i < j /\ IsSendAttempt(trace[i]) /\ IsSendAttempt(trace[j]))
                  => ChainRank(trace[i]) < ChainRank(trace[j])
        /\ \A i \in 1..Len(trace) : IsSendCall(trace[i]) => i = Len(trace)
        /\ (\E i \in 1..Len(trace) : IsSendEvent(trace[i]))
              <=> (\A fn \in SendNames : win[fn] # "ok")

\* C15 happens: the first function found threw and the next one in the probe order was
\* called and returned, which ended the invocation.
C15_Witness ==
    /\ clicked = "option"
    /\ Len(trace) = 2
    /\ trace[1].op = "callThrew" /\ trace[1].target = globalFns[1]
    /\ trace[2].op = "call" /\ trace[2].target = globalFns[2]

\* the submit mechanisms in priority order, and whether the document offers them
Mechanisms == <<"form button[type=submit]", "form button:not([type=button])",
                "document button[type=submit]", "form", "enter">>

Available(k) ==
    CASE k = 1 -> dom.inForm /\ dom.formSubmit
      [] k = 2 -> dom.inForm /\ dom.formButton
      [] k = 3 -> dom.pageSubmit
      [] k = 4 -> dom.inForm
      [] k = 5 -> TRUE

\* the callback's effects are exactly mechanism k
Performs(log, input, k) ==
    IF k <= 3 THEN Len(log) = 1 /\ log[1].op = "click" /\ log[1].target = Mechanisms[k]
    ELSE IF k = 4 THEN Len(log) = 1 /\ log[1].op = "formSubmit"
    ELSE /\ Len(log) = 3
         /\ \A i \in 1..3 : log[i].op = "elementEvent" /\ log[i].target = input
         /\ <<log[1].arg, log[2].arg, log[3].arg>>
               = <<"keydown:Enter", "keypress:Enter", "keyup:Enter">>

Pending(id) == \E i \in 1..Len(timers) : timers[i].id = id

\* a step leaves the pending callbacks alone, or schedules one behind them, or runs
\* the oldest one, which then is the callback that last ran
TimerStep ==
    \/ timers' = timers /\ fired' = fired
    \/ /\ Len(timers') = Len(timers) + 1
       /\ SubSeq(timers', 1, Len(timers)) = timers
       /\ fired' = fired
    \/ /\ timers # <<>>
       /\ timers' = Tail(timers)
       /\ fired'.id = Head(timers).id
       /\ fired'.input = Head(timers).input
       /\ fired'.log # <<>>

\* C17: once the DOM strategy has scheduled its delayed submit, the callback
\* eventually runs, exactly once, and nothing cancels it: a pending callback leaves
\* the pending ones only by running, whatever happens to the card meanwhile, and
\* every pending callback eventually has run.
C17_TimerRunsOnce ==
    /\ [][TimerStep]_vars
    /\ \A id \in 0..MaxTimers : Pending(id) ~> ~Pending(id)

\* C17 happens: a callback ran after the card that scheduled it was unmounted.
C17_Witness ==
    /\ fired.input # "null"
    /\ fired.mcp = "unmounted"
    /\ mcpProps = Unmounted

\* the text of the newest pending callback on this input
LatestText(input) ==
    timers[CHOOSE i \in 1..Len(timers) :
              /\ timers[i].input = input
              /\ \A j \in (i + 1)..Len(timers) : timers[j].input # input].text

\* C18: nothing serializes two invocations on the same input: a callback submits
\* whatever the input holds when it runs, which is the text of the newest invocation
\* still pending on that input, not the text of the invocation that scheduled it.
C18_SubmitsLatestText ==
    [][(timers # <<>> /\ timers' = Tail(timers))
          => fired'.value = LatestText(Head(timers).input)]_vars

\* C18 happens: the callback of the first invocation ran while the input held the text
\* of the second one, whose own callback is still pending and will submit it again.
C18_Witness ==
    /\ fired.input # "null"
    /\ fired.text # fired.value
    /\ timers # <<>>
    /\ Head(timers).input = fired.input
    /\ Head(timers).text = fired.value

\* C19: a submit attempt made while the guard is true delivers nothing and changes no
\* state; a submit that delivers finds the guard false and sets it; and the guard
\* falls only in a payload update.  So between two resets of the guard at most one
\* submission is handed to a delivery channel.
C19_OneSubmitPerRound ==
    /\ [][(submitting /\ clicked' = "submit")
             => /\ trace' = <<>>
                /\ UNCHANGED <<bridgeVars, mcpProps, streamCtx, clarifyProps, form, submitting>>]_vars
    /\ [][(clicked' = "submit" /\ trace' # <<>>) => (~submitting /\ submitting')]_vars
    /\ [][(submitting /\ ~submitting') => clarifyLast'.op = "update"]_vars

\* C19 happens: after a submit that delivered, the form was edited and submit was
\* attempted again with the guard true; nothing was delivered.
C19_Witness ==
    /\ clicked = "submit"
    /\ clarifyLast.was
    /\ submitting
    /\ trace = <<>>
    /\ form # seedForm(clarifyProps)

\* a call of the stream context's submit function, returned or thrown
IsStreamAttempt(e) == e.op \in {"call", "callThrew"} /\ e.target = "streamCtx.submit"

\* C20: a Clarify submit that passed the guard delivers the composed message through
\* the stream context's submit function, once, and does not invoke the Action Bridge,
\* when that function exists and returns; it invokes the Action Bridge, with the same
\* combined text, iff the function is absent or its call throws.
C20_StreamFirst ==
    (clicked = "submit" /\ ~clarifyLast.was) =>
        LET text == displayContent(submitPayload)
        IN  /\ streamCtx = "ok"
               => trace = <<Call("streamCtx.submit",
                                 [messages |-> <<[role |-> "user", type |-> "human",
                                                  content |-> text]>>])>>
            /\ (\E i \in 1..Len(trace) : IsActionBridge(trace[i])) <=> streamCtx # "ok"
            /\ \A i \in 1..Len(trace) :
                  /\ IsStreamAttempt(trace[i])
                        => i = 1 /\ streamCtx \in {"ok", "throws"}
                  /\ IsActionBridge(trace[i]) => CarriesText(trace[i], text)
            /\ streamCtx = "throws" => trace[1].op = "callThrew"

\* C20 happens: the stream context's submit threw, and the Action Bridge broadcast
\* the text that the failed call had been given.
C20_Witness ==
    /\ clicked = "submit"
    /\ streamCtx = "throws"
    /\ form.topic # <<>>
    /\ Len(trace) = 2
    /\ trace[1].op = "callThrew"
    /\ IsSendEvent(trace[2])
    /\ trace[2].arg.text = trace[1].arg.messages[1].content

\* the payload field that seeds each control
PropOf == [topic |-> "topic", contentFormat |-> "content_format",
           audience |-> "target_audience", tone |-> "tone"]

\* C21: a payload update re-seeds the controls whose payload field changed and no
\* other: the local value of a control whose field did not change, a user edit
\* included, stays, so an update that changes one seed field re-seeds one control and
\* an update that changes none leaves the four values; the submitting guard stays
\* unless the question or the missing list changed.
C21_ReseedFrame ==
    [][clarifyLast'.op = "update" =>
          /\ \A f \in FieldNames :
                IF clarifyProps'[PropOf[f]] = clarifyProps[PropOf[f]]
                THEN form'[f] = form[f]
                ELSE form'[f] = OrElse(clarifyProps'[PropOf[f]], <<>>)
          /\ ~roundChanged(clarifyProps, clarifyProps') => submitting' = submitting]_vars

\* C21 happens: after a submit, an update changed the topic and nothing else; the
\* topic control shows the new topic, the tone control still shows what the user
\* typed, and the guard is still true.
C21_Witness ==
    /\ clarifyLast.op = "update"
    /\ clarifyLast.seeds = {"topic"}
    /\ clarifyLast.was /\ submitting
    /\ clarifyProps.topic = Some(<<"A">>)
    /\ form.topic = <<"A">>
    /\ form.tone = <<"B">>

\* C22: on a payload update a control is re-seeded only if its payload field is
\* present in the new payload; when it is absent the local value stays.
C22_AbsentFieldKeepsValue ==
    [][clarifyLast'.op = "update" =>
          \A f \in FieldNames :
              clarifyProps'[PropOf[f]] = None => form'[f] = form[f]]_vars

Is(e, op, target) == e.op = op /\ e.target = target

\* a submit mechanism: a click, a form submit or an Enter key event
IsSubmitStep(e) ==
    \/ e.op \in {"click", "formSubmit"}
    \/ e.op = "elementEvent" /\ e.arg \in {"keydown:Enter", "keypress:Enter", "keyup:Enter"}

\* the last four effects of an invocation are the value write, the input and the
\* change notification and the scheduling of the callback t
WroteThenScheduled(log, t) ==
    LET n == Len(log)
    IN  /\ n >= 4
        /\ Is(log[n - 3], "setValue", t.input) /\ log[n - 3].arg = t.text
        /\ Is(log[n - 2], "elementEvent", t.input) /\ log[n - 2].arg = "input"
        /\ Is(log[n - 1], "elementEvent", t.input) /\ log[n - 1].arg = "change"
        /\ Is(log[n], "setTimeout", t.input)

\* C23: the DOM strategy writes the value, then dispatches input, then change, then
\* schedules the submit, all within the invocation; no submit mechanism runs within
\* an invocation; a submit runs only as the step of a callback that an earlier
\* invocation scheduled after its own write and notifications.
C23_WriteNotifyThenSubmitLater ==
    /\ [][Len(timers') > Len(timers)
             => WroteThenScheduled(trace', timers'[Len(timers')])]_vars
    /\ [](\A i \in 1..Len(trace) : ~IsSubmitStep(trace[i]))
    /\ [][fired' # fired
             => /\ timers # <<>> /\ timers' = Tail(timers)
                /\ fired'.id = Head(timers).id
                /\ \A i \in 1..Len(fired'.log) : IsSubmitStep(fired'.log[i])
                /\ trace' = <<>>]_vars

\* C23 happens: an invocation wrote the option's text to the element, notified and
\* scheduled the submit, and no callback has run yet.
C23_Witness ==
    /\ clicked = "option"
    /\ timers # <<>>
    /\ WroteThenScheduled(trace, timers[1])
    /\ inputValue[timers[1].input] = timers[1].text
    /\ fired = NoFired

\* the elements an invocation wrote, and the submits it scheduled
Written == {trace[i].target : i \in {j \in 1..Len(trace) : trace[j].op = "setValue"}}

\* C24: an invocation that reaches the DOM strategy writes exactly one element, the
\* textarea if the document has one, else the text input, and schedules exactly one
\* delayed submit, on that element; with neither element it writes and schedules
\* nothing.
C24_OneElement ==
    (BridgeInvoked /\ \E i \in 1..Len(trace) : IsSendEvent(trace[i])) =>
        /\ Written = IF dom.textarea THEN {"textarea"}
                     ELSE IF dom.textInput THEN {"input"} ELSE {}
        /\ Cardinality({i \in 1..Len(trace) : trace[i].op = "setValue"}) = Cardinality(Written)
        /\ Cardinality({i \in 1..Len(trace) : trace[i].op = "setTimeout"}) = Cardinality(Written)
        /\ \A i \in 1..Len(trace) : trace[i].op = "setTimeout" => trace[i].target \in Written

\* C24 happens: the document has a textarea and a text input, and the invocation
\* wrote the textarea and left the text input alone.
C24_Witness ==
    /\ clicked = "option"
    /\ dom.textarea /\ dom.textInput
    /\ Written = {"textarea"}
    /\ inputValue["textarea"] # <<>>
    /\ inputValue["input"] = <<>>

\* the node is the first one of the list that current_node names
isCurrent_firstMatch(current, nodes, idx) ==
    /\ Truthy(current)
    /\ current = nodes[idx].node_code \/ current = nodes[idx].node_name
    /\ \A j \in 1..(idx - 1) :
          current # nodes[j].node_code /\ current # nodes[j].node_name

\* C25: at most one node is marked current, the first node of the list whose code or
\* name equals current_node; with current_node absent or empty no node is marked.
C25_OneCurrentNode ==
    workflow.rendered =>
    /\ Cardinality({i \in 1..Len(workflow.marks) : workflow.marks[i]}) <= 1
    /\ \A i \in 1..Len(workflow.marks) :
          workflow.marks[i] <=> isCurrent_firstMatch(workflow.current, workflow.nodes, i)

\* C26, as stated: the payload of the fix action carries the task's raw impact and
\* difficulty next to its other values.
C26_RawValuesForwarded ==
    clicked = "fix" =>
        /\ "impact" \in DOMAIN trace[1].arg.task_info
        /\ "difficulty" \in DOMAIN trace[1].arg.task_info

\* the part of C26 that holds: the message is the task's fix prompt verbatim whenever
\* the task has a non-empty one, and issue_type, category and title are forwarded as
\* they are
FixPromptVerbatim ==
    clicked = "fix" =>
        /\ seoTask.fix.fix_prompt \notin {None, Some(<<>>)}
              => Some(trace[1].arg.message) = seoTask.fix.fix_prompt
        /\ trace[1].arg.task_info.title = seoTask.fix.title
        /\ trace[1].arg.task_info.issue_type = seoTask.fix.issue_type

\* a render of a payload that has only its status
StatusOnly == view.key # "" /\ view.present = {}

\* C27, as stated: every registered card, rendered with any status of its enumeration
\* and no other field, completes without a fault and shows a placeholder or a waiting
\* message where the data is missing.
C27_StatusOnlyRenders ==
    StatusOnly =>
        /\ ~view.fault
        /\ \E s \in view.shown : s.kind \in {"placeholder", "waiting"}

\* the part of C27 that holds: no payload makes a render fault, and the cards other
\* than the SEO planner and the report progress show a placeholder or a waiting message
NoFaultAndMostPlaceholders ==
    /\ ~view.fault
    /\ StatusOnly /\ view.key \notin {"seo_planner", "report_progress"}
          => \E s \in view.shown : s.kind \in {"placeholder", "waiting"}

\* nothing in the log reached a receiver: no call returned, no element was written
Undelivered(log) == \A i \in 1..Len(log) : log[i].op \in {"callThrew", "windowEvent"}

\* C28: where no channel delivers, a submit with the guard false reaches no receiver and
\* still sets the guard; the guard goes back to false only by an update that changes the
\* question or the serialized missing list, and until then a click on submit does
\* nothing: the undelivered submission is not retried.
C28_GuardStaysAfterFailedDelivery ==
    /\ [][(clicked' = "submit" /\ ~submitting) => (Undelivered(trace') /\ submitting')]_vars
    /\ [][(submitting /\ ~submitting')
             => (clarifyLast'.op = "update" /\ roundChanged(clarifyProps, clarifyProps'))]_vars
    /\ [][(submitting /\ clicked' = "submit")
             => (trace' = <<>> /\ UNCHANGED <<bridgeVars, submitting>>)]_vars

\* C28 happens: the stream context threw on the first submit, the user edited a field
\* and clicked submit again; the guard is still true and nothing was attempted.
C28_Witness ==
    /\ streamCtx = "throws"
    /\ clicked = "submit"
    /\ clarifyLast.was
    /\ submitting
    /\ trace = <<>>
    /\ form # seedForm(clarifyProps)

\* the texts of the 1-based indexes of the options shown
OptionTexts == {String(n) : n \in 1..mcpProps.nOptions}

\* C29: an option click is delivered only while the status is "select", and what it
\* sends is the 1-based index of an option shown; confirm and cancel are delivered only
\* while the status is "confirm"; in the statuses running, done, cancelled and error no
\* step of the user invokes the Action Bridge or the Resume Bridge.
C29_BridgeOnlyInMatchingStatus ==
    /\ [][clicked' = "option"
             => /\ mcpProps.status = "select"
                /\ trace' # <<>>
                /\ \E text \in OptionTexts :
                      \A i \in 1..Len(trace') : CarriesText(trace'[i], text)]_vars
    /\ [][clicked' \in {"confirm", "cancel"}
             => (mcpProps.status = "confirm" /\ trace' # <<>>)]_vars
    /\ [][mcpProps.status \in {"running", "done", "cancelled", "error"}
             => (clicked' = "none" /\ trace' = <<>>)]_vars

\* C29 happens: in the status "select" the last option shown was clicked and the text of
\* its 1-based index went to the host's send function.
C29_Witness ==
    /\ clicked = "option"
    /\ mcpProps = [status |-> "select", nOptions |-> MaxOptions]
    /\ trace # <<>>
    /\ trace[1].op = "call"
    /\ trace[1].arg = String(MaxOptions)

\* C30, as stated: in every host and for every text the two copies of the Action Bridge
\* do the same: what the select card's copy did on an option click is what the Clarify
\* card's copy does with that text, what the Clarify card's copy did on a submit is what
\* the select card's copy does with that text, and the delayed callback of either copy
\* did what the callback of the other does.
C30_CopiesEquivalent ==
    /\ clicked = "option" => \E text \in OptionTexts : trace = clarify_sendMessage(text).log
    /\ (clicked = "submit" /\ ~clarifyLast.was)
          => trace = mcp_sendMessage(displayContent(submitPayload)).log
    /\ fired.log # <<>>
          => (fired.log = mcp_submitLater(fired.input)
                /\ fired.log = clarify_submitLater(fired.input))

\* the part of C30 that holds: the copies do the same unless the form has a control
\* named "requestSubmit"
EquivalentUnlessNamed == ~dom.namedControl => C30_CopiesEquivalent

====
